---------------------------- MODULE Spec2Model ----------------------------
(***************************************************************************)
(* A model of the better-cp / better-mv transfer engines:                  *)
(*   copy.rs     FileCopier (sequential, resumable, atomic, verified)      *)
(*   resume.rs   ResumeState (the sidecar ledger)                          *)
(*   parallel.rs ParallelFileCopier (chunk workers)                        *)
(*   move.rs     FileMover / move_directory                                *)
(*   verify.rs   compute_checksum                                          *)
(*                                                                         *)
(* Sizes and offsets are counted in units of 4 MiB: the 64 MiB chunk is 16 *)
(* units and the 100 MiB persistence interval is 25 units (same ratio).    *)
(* A file's content is a sequence of numbers; a path is a sequence of      *)
(* components and a component is the sequence of its dot-separated         *)
(* segments, so that set_extension and the sidecar naming rule are         *)
(* computed as the code computes them.                                     *)
(***************************************************************************)
EXTENDS Integers, Sequences, FiniteSets, TLC

\* copy.rs:11, parallel.rs:9, move.rs:92 (64 MiB, in 4 MiB units)
CHUNK_SIZE == 16
\* copy.rs:175 (100 MiB, in 4 MiB units)
SAVE_INTERVAL == 25

\* Bounds of the model.
Several == 3
MaxThreads == 3
MaxMtime == 3
MaxRanges == 3
MaxOffset == 2
BigChunks == 25
GrowthCap == 2

Min(a, b) == IF a < b THEN a ELSE b

(***************************************************************************)
(* Paths                                                                   *)
(***************************************************************************)
FileName(p) == p[Len(p)]
Parent(p) == SubSeq(p, 1, Len(p) - 1)
WithFileName(p, n) == Append(Parent(p), n)

\* PathBuf::set_extension as used at copy.rs:111: the part of the file name
\* after its last dot is replaced; a name without a dot gets one appended.
FileStem(n) == IF Len(n) >= 2 THEN SubSeq(n, 1, Len(n) - 1) ELSE n
SetExtension(p, ext) ==
    IF Len(p) = 0 THEN p ELSE WithFileName(p, Append(FileStem(FileName(p)), ext))

\* A piece of a file name that holds a byte sequence that is not UTF-8, and
\* the same piece with U+FFFD in the place of that sequence
InvalidUtf8 == "b<FF>"
Replaced == "b<U+FFFD>"
IsUtf8(p) == \A i \in DOMAIN p : \A j \in DOMAIN p[i] : p[i][j] # InvalidUtf8
\* OsStr::to_string_lossy (resume.rs:42): invalid sequences become U+FFFD
ToStringLossy(n) == [j \in DOMAIN n |-> IF n[j] = InvalidUtf8 THEN Replaced ELSE n[j]]

\* ResumeState::state_file_path: "<file name>.better-cp.state" beside the target.
state_file_path(target) ==
    IF Len(target) = 0 THEN << <<"better-cp", "state">> >>
    ELSE WithFileName(target, ToStringLossy(FileName(target)) \o <<"better-cp", "state">>)

(***************************************************************************)
(* Resume records and file entries                                         *)
(***************************************************************************)
ChunkInfo(o, l) == [offset |-> o, length |-> l]
EmptyRec == [source |-> <<>>, target |-> <<>>, total_size |-> 0, chunks_completed |-> <<>>]
\* ResumeState::new
NewResumeState(source, target, total_size) ==
    [source |-> source, target |-> target, total_size |-> total_size,
     chunks_completed |-> <<>>]
NoState == [some |-> FALSE, rec |-> EmptyRec]
SomeState(r) == [some |-> TRUE, rec |-> r]

\* ResumeState::mark_chunk_done
mark_chunk_done(r, offset, length) ==
    [r EXCEPT !.chunks_completed = Append(@, ChunkInfo(offset, length))]

RECURSIVE SumLengths(_)
SumLengths(cs) == IF cs = <<>> THEN 0 ELSE cs[1].length + SumLengths(Tail(cs))
\* ResumeState::bytes_completed
bytes_completed(r) == SumLengths(r.chunks_completed)

\* Vec::sort_by_key(|c| c.offset): a stable sort, here by stable insertion.
RECURSIVE InsertByOffset(_, _)
InsertByOffset(sorted, c) ==
    IF sorted = <<>> THEN <<c>>
    ELSE IF sorted[Len(sorted)].offset <= c.offset THEN Append(sorted, c)
    ELSE Append(InsertByOffset(SubSeq(sorted, 1, Len(sorted) - 1), c), sorted[Len(sorted)])
\* A Vec left in the order it was pushed
Unsorted(cs) == cs
RECURSIVE SortByOffset(_)
SortByOffset(cs) ==
    IF cs = <<>> THEN <<>>
    ELSE InsertByOffset(SortByOffset(SubSeq(cs, 1, Len(cs) - 1)), cs[Len(cs)])

\* The walk of ResumeState::validate over the sorted chunks.
RECURSIVE WalkChunks(_, _)
WalkChunks(sorted, expected_offset) ==
    IF sorted = <<>> THEN TRUE
    ELSE IF sorted[1].offset # expected_offset THEN FALSE
    ELSE WalkChunks(Tail(sorted), sorted[1].offset + sorted[1].length)
\* ResumeState::validate: TRUE for Ok(()), FALSE for Err(InvalidResumeState)
validate(r) == WalkChunks(SortByOffset(r.chunks_completed), 0)

\* What a file holds: bytes, or the JSON text of a resume record.
NoJson == [parse |-> FALSE, rec |-> EmptyRec]
\* serde_json::to_string_pretty(self) at resume.rs:53
Serialize(r) == [parse |-> TRUE, rec |-> r]
FileEntry(data, mtime) == [kind |-> "file", data |-> data, mtime |-> mtime, json |-> NoJson]
JsonEntry(r, mtime) == [kind |-> "file", data |-> <<>>, mtime |-> mtime, json |-> Serialize(r)]
DirEntry == [kind |-> "dir", data |-> <<>>, mtime |-> 0, json |-> NoJson]

(***************************************************************************)
(* The filesystem: a function from the existing paths to their entries     *)
(***************************************************************************)
Exists(f, p) == p \in DOMAIN f
IsFile(f, p) == Exists(f, p) /\ f[p].kind = "file"
IsDir(f, p) == p = <<>> \/ (Exists(f, p) /\ f[p].kind = "dir")
Put(f, p, e) == [q \in DOMAIN f \cup {p} |-> IF q = p THEN e ELSE f[q]]
Del(f, p) == [q \in DOMAIN f \ {p} |-> f[q]]
IsPrefix(a, b) == Len(a) <= Len(b) /\ SubSeq(b, 1, Len(a)) = a
\* The time a write stamps on a file: later than every initial mtime.
Now == MaxMtime + 1

\* A create_dir_all that creates nothing
CreateNothing(f, p) == f
\* fs::create_dir_all
Prefixes(p) == {SubSeq(p, 1, k) : k \in 1..Len(p)}
CreateDirAllOk(f, p) == \A q \in Prefixes(p) : ~IsFile(f, q)
CreateDirAll(f, p) ==
    [q \in DOMAIN f \cup Prefixes(p) |-> IF q \in DOMAIN f THEN f[q] ELSE DirEntry]

\* Whether the directory a path lies in exists (the root always does)
ParentExists(f, p) == Len(p) <= 1 \/ IsDir(f, Parent(p))

\* File::create: create or truncate
CreateTruncate(f, p) == Put(f, p, FileEntry(<<>>, Now))
\* OpenOptions write+create, no truncate
OpenCreate(f, p) == IF Exists(f, p) THEN f ELSE Put(f, p, FileEntry(<<>>, Now))

\* Read::read at a cursor into a buffer of CHUNK_SIZE
ReadAt(f, p, off) ==
    IF off >= Len(f[p].data) THEN <<>>
    ELSE SubSeq(f[p].data, off + 1, Min(Len(f[p].data), off + CHUNK_SIZE))
\* Write::write_all at a cursor; a cursor past the end leaves a hole of zeros
Zeros(n) == [i \in 1..n |-> 0]
WriteData(old, off, buf) ==
    LET padded == IF off > Len(old) THEN old \o Zeros(off - Len(old)) ELSE old
    IN  SubSeq(padded, 1, off) \o buf \o
        (IF off + Len(buf) < Len(padded)
         THEN SubSeq(padded, off + Len(buf) + 1, Len(padded)) ELSE <<>>)
WriteAt(f, p, off, buf) ==
    Put(f, p, [f[p] EXCEPT !.data = WriteData(@, off, buf), !.mtime = Now, !.json = NoJson])

\* fs::rename of a file (a rename onto itself changes nothing)
RenameFile(f, a, b) == IF a = b THEN f ELSE Put(Del(f, a), b, f[a])

\* compute_checksum: SHA-256 of the whole content, modelled as an injective tag
compute_checksum(f, p) == <<"sha256", f[p].data, f[p].json>>

(***************************************************************************)
(* State                                                                   *)
(***************************************************************************)
VARIABLES
    req,            \* the TransferRequest / the mover's fields (immutable)
    fs,             \* the filesystem
    fs0,            \* the filesystem when the operation began
    pc,             \* where the operation is
    result,         \* what the operation returned
    total_size,     \* src_metadata.len()
    src_modified,   \* src_metadata.modified()
    resume_state,   \* Option<ResumeState>
    write_target,   \* the path perform_copy writes to
    src_pos,        \* cursor of src_file
    dst_pos,        \* cursor of dst_file
    current_offset, \* perform_copy's current_offset
    workers,        \* the spawned copy_chunk tasks: where each is, its next chunk
    joined,         \* how many handles parallel_copy has awaited
    transferred,    \* ProgressTracker.transferred_bytes
    visited,        \* how often each chunk index was taken by a worker
    files_to_copy,  \* the (source, target) pairs collect_files_recursive pushed
    frames,         \* the pending calls of copy_directory_impl, innermost last
    hist            \* what happened so far (decisions taken, steps done)

vars == <<req, fs, fs0, pc, result, total_size, src_modified, resume_state,
          write_target, src_pos, dst_pos, current_offset, workers, joined, transferred,
          visited, frames, files_to_copy, hist>>
locals == <<total_size, src_modified, resume_state, write_target, src_pos, dst_pos,
            current_offset>>
rest == <<workers, joined, visited, frames, files_to_copy>>

\* fault: the error came from an I/O failure of the environment
NoResult == [kind |-> "None", msg |-> "", expected |-> <<>>, actual |-> <<>>, fault |-> FALSE]
Ok == [NoResult EXCEPT !.kind = "Ok"]
Err(kind) == [NoResult EXCEPT !.kind = kind]
Custom(msg) == [NoResult EXCEPT !.kind = "Custom", !.msg = msg]
ChecksumMismatch(e, a) ==
    [NoResult EXCEPT !.kind = "ChecksumMismatch", !.expected = e, !.actual = a]
\* The error r of a step whose I/O the environment let through (ok) or failed
IoResult(r, ok) == IF ok THEN r ELSE [r EXCEPT !.fault = TRUE]

NoHist ==
    [decision |-> "none",       \* outcome of handle_overwrite, when consulted
     offer |-> "none",          \* answer of prompt_resume, when asked
     dst_at_decision |-> "none",\* "older" | "same" | "newer" than the source
     verified |-> FALSE,        \* verify_copy ran and matched
     verify_ran |-> FALSE,      \* verify_copy read both files to their end
     rename |-> "none",         \* outcome of the mover's fs::rename
     fallback |-> FALSE,        \* the mover went on to copy-then-delete
     runs |-> 1,                \* how many times the command was run
     killed_at |-> "none",      \* the step at which the last kill struck
     killed_after |-> 0,        \* bytes written by the killed run
     copied |-> FALSE,          \* a copy step began
     deleted |-> FALSE,         \* the mover deleted the source
     copy_ok |-> FALSE,         \* the mover's copy step returned Ok
     started |-> {},            \* the target paths a tree copy began a transfer to
     load |-> "none",           \* what ResumeState::load returned, when called
     save_failed |-> FALSE,     \* a save of the record failed during the loop
     stat_error |-> "none",     \* the kind of the failure fs::metadata(source) raised
     writes |-> {},             \* the byte ranges the workers issued their writes for
     ledger |-> <<>>]           \* per destination, the record last saved and not cleaned up

\* Return from the operation.
Return(r) == /\ result' = r
             /\ pc' = "done"

(***************************************************************************)
(* The requests and filesystems the model starts from                      *)
(***************************************************************************)
Content(n) == [i \in 1..n |-> i]
OldContent == <<99, 98, 97>>
Sizes == {0, 1, CHUNK_SIZE - 1, CHUNK_SIZE, CHUNK_SIZE + 1, Several * CHUNK_SIZE,
          2 * SAVE_INTERVAL}
SrcMtime == MaxMtime - 1
OverwriteModes == {"Never", "Always", "Prompt", "Smart"}
OverwriteChoices == {"Overwrite", "Skip", "Rename", "Abort"}

A_TXT == << <<"a", "txt">> >>
A_TMP == << <<"a", "tmp">> >>
B_TXT == << <<"b", "txt">> >>
B_TMP == << <<"b", "tmp">> >>
B_BARE == << <<"b">> >>
\* <<source, target>>
PathPairs == {<<A_TXT, B_TXT>>, <<A_TMP, A_TXT>>, <<A_TXT, B_TMP>>, <<A_TXT, B_BARE>>}

\* The sidecar a run can find: none, unparseable bytes, or a record.
SidecarChunkLists == {<<>>, <<ChunkInfo(0, CHUNK_SIZE)>>, <<ChunkInfo(CHUNK_SIZE, CHUNK_SIZE)>>}
SidecarStates(source, target, size) ==
    {[kind |-> "absent", entry |-> DirEntry], [kind |-> "garbage", entry |-> FileEntry(<<7>>, 1)]}
    \cup {[kind |-> "record",
           entry |-> JsonEntry([NewResumeState(source, target, size)
                                EXCEPT !.chunks_completed = cl], 1)] : cl \in SidecarChunkLists}
DstStates == {[kind |-> "absent", entry |-> DirEntry]}
             \cup {[kind |-> "old", entry |-> FileEntry(OldContent, m)] : m \in 1..MaxMtime}

\* What an interrupted copy leaves at the target: the first bytes of the
\* source, one unit past the end of the first chunk when the source is longer
PartialLen(size) == Min(size, CHUNK_SIZE + 1)
PartialDst(size) ==
    [kind |-> "partial", entry |-> FileEntry(SubSeq(Content(size), 1, PartialLen(size)), 1)]

InitFs(source, target, size, dst, side) ==
    LET f0 == [p \in {source} |-> FileEntry(Content(size), SrcMtime)]
        f1 == IF dst.kind = "absent" THEN f0 ELSE Put(f0, target, dst.entry)
    IN  IF side.kind = "absent" THEN f1 ELSE Put(f1, state_file_path(target), side.entry)

InitLocals ==
    /\ pc = "start"
    /\ result = NoResult
    /\ total_size = 0
    /\ src_modified = 0
    /\ resume_state = NoState
    /\ write_target = <<>>
    /\ src_pos = 0
    /\ dst_pos = 0
    /\ current_offset = 0
    /\ workers = <<>>
    /\ joined = 0
    /\ transferred = 0
    /\ visited = <<>>
    /\ files_to_copy = <<>>
    /\ frames = <<>>
    /\ hist = NoHist

InitCopy ==
    /\ \E pp \in PathPairs, mode \in OverwriteModes, verify \in BOOLEAN,
          resume \in BOOLEAN, atomic \in BOOLEAN, size \in Sizes :
         \E dst \in DstStates \cup {PartialDst(size)},
            side \in SidecarStates(pp[1], pp[2], size) :
           /\ req = [op |-> "copy", source |-> pp[1], target |-> pp[2],
                     overwrite_mode |-> mode, verify |-> verify, resume |-> resume,
                     atomic |-> atomic, parallel_threads |-> 0]
           /\ fs = InitFs(pp[1], pp[2], size, dst, side)
    /\ fs0 = fs
    /\ InitLocals

(***************************************************************************)
(* FileCopier::copy                                                        *)
(***************************************************************************)
\* copy.rs:45-52: stat the source
\* The kinds of io::Error a stat of an existing path fails with: EACCES on a
\* directory of the path, or anything else (EIO, ELOOP, ...)
StatErrors == {"PermissionDenied", "Other"}
\* copy.rs:45-46, parallel.rs:37-38: map_err(|_| Error::SourceNotFound(..)),
\* whatever the kind of the io::Error
StatError(kind) == Err("SourceNotFound")

CopyStat ==
    /\ req.op = "copy" /\ pc = "start"
    /\ \E ok \in BOOLEAN, kind \in StatErrors :
         IF ~Exists(fs, req.source)
         THEN /\ Return(StatError("NotFound"))
              /\ hist' = [hist EXCEPT !.stat_error = "NotFound"]
              /\ UNCHANGED <<total_size, src_modified>>
         ELSE IF ~ok
         THEN /\ Return(IoResult(StatError(kind), FALSE))
              /\ hist' = [hist EXCEPT !.stat_error = kind]
              /\ UNCHANGED <<total_size, src_modified>>
         ELSE IF fs[req.source].kind # "file"
         THEN Return(Custom("Source is not a file"))
              /\ UNCHANGED <<total_size, src_modified, hist>>
         ELSE /\ total_size' = Len(fs[req.source].data)
              /\ src_modified' = fs[req.source].mtime
              /\ pc' = "load"
              /\ UNCHANGED <<result, hist>>
    /\ UNCHANGED <<req, rest, transferred, fs, fs0, resume_state, write_target, src_pos, dst_pos,
                   current_offset>>

\* A load that takes an unparseable sidecar for an absent one
LoadOutcomeLenient(f, target, readOk) ==
    LET state_file == state_file_path(target)
    IN  IF ~Exists(f, state_file) THEN "absent"
        ELSE IF ~readOk THEN "io"
        ELSE IF f[state_file].json.parse THEN "loaded" ELSE "absent"
\* ResumeState::load: "absent" (Ok(None)), "io" (the read failed), "invalid"
\* (InvalidResumeState) or "loaded" (Ok(Some))
LoadOutcome(f, target, readOk) ==
    LET state_file == state_file_path(target)
    IN  IF ~Exists(f, state_file) THEN "absent"
        ELSE IF ~readOk THEN "io"
        ELSE IF ~f[state_file].json.parse THEN "invalid"
        ELSE "loaded"
\* serde_json::from_str at resume.rs:69
Deserialize(json) == json.rec

\* copy.rs:55-68: load the record, validate it, decide whether to offer a resume
CopyLoadResume ==
    /\ req.op = "copy" /\ pc = "load"
    /\ \E readOk \in BOOLEAN :
         LET out == IF req.resume THEN LoadOutcome(fs, req.target, readOk) ELSE "absent"
             state == Deserialize(fs[state_file_path(req.target)].json)
         IN  /\ CASE out = "absent" ->
                       /\ resume_state' = NoState
                       /\ pc' = "overwrite"
                       /\ UNCHANGED result
                  [] out = "io" -> Return(IoResult(Err("Io"), FALSE)) /\ UNCHANGED resume_state
                  [] out = "invalid" -> Return(Err("InvalidResumeState")) /\ UNCHANGED resume_state
                  [] out = "loaded" ->
                       IF ~validate(state)
                       THEN Return(Err("InvalidResumeState")) /\ UNCHANGED resume_state
                       ELSE /\ resume_state' = SomeState(state)
                            /\ pc' = IF bytes_completed(state) > 0
                                        /\ bytes_completed(state) < total_size
                                     THEN "prompt_resume" ELSE "overwrite"
                            /\ UNCHANGED result
             /\ hist' = [hist EXCEPT !.load = IF req.resume THEN out ELSE "none"]
    /\ UNCHANGED <<req, rest, transferred, fs, fs0, total_size, src_modified, write_target, src_pos, dst_pos,
                   current_offset>>

\* copy.rs:69-83: the resume offer; on decline the record is dropped and the
\* target removed
CopyPromptResume ==
    /\ req.op = "copy" /\ pc = "prompt_resume"
    /\ \E should_resume \in BOOLEAN, ok \in BOOLEAN :
         /\ hist' = [hist EXCEPT !.offer = IF should_resume THEN "continue" ELSE "restart"]
         /\ IF should_resume
            THEN /\ pc' = "overwrite"
                 /\ UNCHANGED <<fs, result, resume_state>>
            ELSE /\ resume_state' = NoState
                 /\ IF ~Exists(fs, req.target)
                    THEN pc' = "overwrite" /\ UNCHANGED <<fs, result>>
                    ELSE IF ok /\ IsFile(fs, req.target)
                    THEN fs' = Del(fs, req.target) /\ pc' = "overwrite" /\ UNCHANGED result
                    ELSE Return(IoResult(Err("Io"), ok)) /\ UNCHANGED fs
    /\ UNCHANGED <<req, rest, transferred, fs0, total_size, src_modified, write_target, src_pos, dst_pos,
                   current_offset>>

\* How the target's mtime compares with the source's
Compare(src_m, tgt_m) ==
    IF tgt_m < src_m THEN "older" ELSE IF tgt_m = src_m THEN "same" ELSE "newer"

\* FileCopier::handle_overwrite / FileMover::handle_overwrite: the decision for
\* a mode, a prompt answer and the two mtimes; metaOk is fs::metadata(target)
handle_overwrite(mode, choice, metaOk, src_m, tgt_m) ==
    CASE mode = "Never" -> "TargetExists"
      [] mode = "Always" -> "Proceed"
      [] mode = "Prompt" ->
            IF ~metaOk THEN "Io"
            ELSE IF choice = "Overwrite" THEN "Proceed" ELSE choice
      [] mode = "Smart" ->
            IF ~metaOk THEN "Io"
            ELSE IF src_m > tgt_m THEN "Proceed" ELSE "TargetExists"

\* A report that takes every refusal for an abort
DecisionErrorAsAbort(d) ==
    IF d = "Io" THEN IoResult(Err("Io"), FALSE) ELSE Err("UserAborted")
\* The error a non-Proceed decision is returned as
DecisionError(d) ==
    CASE d = "TargetExists" -> Err("TargetExists")
      [] d = "Skip" -> Custom("Skipped by user")
      [] d = "Rename" -> Custom("Rename not yet implemented")
      [] d = "Abort" -> Err("UserAborted")
      [] d = "Io" -> IoResult(Err("Io"), FALSE)

\* copy.rs:87-90
CopyHandleOverwrite ==
    /\ req.op = "copy" /\ pc = "overwrite"
    /\ IF Exists(fs, req.target) /\ ~resume_state.some
       THEN \E choice \in OverwriteChoices, metaOk \in BOOLEAN :
              LET d == handle_overwrite(req.overwrite_mode, choice, metaOk,
                                        src_modified, fs[req.target].mtime)
              IN  /\ hist' = [hist EXCEPT !.decision = d,
                                !.dst_at_decision =
                                    Compare(src_modified, fs[req.target].mtime)]
                  /\ IF d = "Proceed" THEN pc' = "mkdir" /\ UNCHANGED result
                     ELSE Return(DecisionError(d))
       ELSE pc' = "mkdir" /\ UNCHANGED <<result, hist>>
    /\ UNCHANGED <<req, rest, transferred, fs, fs0, locals>>

\* copy.rs:92-96
CopyCreateParent ==
    /\ req.op = "copy" /\ pc = "mkdir"
    /\ \E ok \in BOOLEAN :
         IF Len(req.target) = 0
         THEN pc' = "open" /\ UNCHANGED <<fs, result>>
         ELSE IF ok /\ CreateDirAllOk(fs, Parent(req.target))
         THEN fs' = CreateDirAll(fs, Parent(req.target)) /\ pc' = "open" /\ UNCHANGED result
         ELSE Return(IoResult(Custom("Failed to create parent directory"), ok))
              /\ UNCHANGED fs
    /\ UNCHANGED <<req, rest, transferred, fs0, locals, hist>>

(***************************************************************************)
(* FileCopier::perform_copy                                                *)
(***************************************************************************)
\* copy.rs:109-115: the staging path in atomic mode
WriteTarget(target, atomic) == IF atomic THEN SetExtension(target, "tmp") ELSE target

\* copy.rs:122-132: the destination is opened without truncation when a record
\* is honoured, created or truncated otherwise
OpenDst(f, p, resuming) == IF resuming THEN OpenCreate(f, p) ELSE CreateTruncate(f, p)

\* copy.rs:140: where the destination cursor is put when resuming
ResumeDstPos(f, p, bytes_done) == Len(f[p].data)

\* The loop of a copy that appends to its own source never ends: the model
\* cuts it once the file has grown by GrowthCap chunks.
MaxFileLen(size) == size + Len(OldContent) + GrowthCap * CHUNK_SIZE

\* copy.rs:105-155
CopyOpen ==
    /\ req.op = "copy" /\ pc = "open"
    /\ \E ok \in BOOLEAN :
         LET wt == WriteTarget(req.target, req.atomic)
             resuming == resume_state.some
             bytes_done == bytes_completed(resume_state.rec)
             f1 == OpenDst(fs, wt, resuming)
         IN  IF ~ok \/ ~IsFile(fs, req.source) \/ IsDir(fs, wt)
             THEN /\ Return(IoResult(Err("Io"), ok))
                  /\ UNCHANGED <<fs, write_target, src_pos, dst_pos, current_offset,
                                 resume_state, transferred>>
             ELSE /\ write_target' = wt
                  /\ fs' = f1
                  /\ src_pos' = IF resuming THEN bytes_done ELSE 0
                  /\ dst_pos' = IF resuming THEN ResumeDstPos(f1, wt, bytes_done) ELSE 0
                  /\ current_offset' = IF resuming THEN bytes_done ELSE 0
                  /\ transferred' = IF resuming THEN bytes_done ELSE 0
                  /\ resume_state' =
                        IF resuming THEN resume_state
                        ELSE SomeState(NewResumeState(req.source, req.target, total_size))
                  /\ pc' = "loop"
                  /\ UNCHANGED result
    /\ hist' = [hist EXCEPT !.copied = TRUE]
    /\ UNCHANGED <<req, rest, fs0, total_size, src_modified>>

\* copy.rs:175: whether this chunk is recorded and the record saved
SavePoint(offset, bytes_read) == offset % SAVE_INTERVAL = 0 \/ bytes_read = 0

\* ResumeState::save: the record written to its sidecar
Save(f, r) == Put(f, state_file_path(r.target), JsonEntry(r, Now))
\* A save whose failure takes the destination with it
SaveOrTruncate(f, r, saveOk) == IF saveOk THEN Save(f, r) ELSE CreateTruncate(f, r.target)
\* copy.rs:181: state.save().ok(), a failure of the save is dropped
SaveBestEffort(f, r, saveOk) == IF saveOk THEN Save(f, r) ELSE f

\* copy.rs:159-184: one turn of the loop (read a chunk, write it, book-keep)
CopyChunk ==
    /\ req.op = "copy" /\ pc = "loop"
    /\ Len(fs[write_target].data) <= MaxFileLen(total_size)
    /\ \E readOk \in BOOLEAN, writeOk \in BOOLEAN, saveOk \in BOOLEAN :
         LET buffer == IF IsFile(fs, req.source) THEN ReadAt(fs, req.source, src_pos) ELSE <<>>
             bytes_read == Len(buffer)
             offset == current_offset + bytes_read
             f1 == WriteAt(fs, write_target, dst_pos, buffer)
             state == mark_chunk_done(resume_state.rec, offset - bytes_read, bytes_read)
         IN  /\ IF ~readOk
                THEN /\ Return(IoResult(Err("Io"), FALSE))
                     /\ UNCHANGED <<fs, src_pos, dst_pos, current_offset, resume_state, transferred>>
                ELSE IF bytes_read = 0
                THEN /\ pc' = "rename"
                     /\ UNCHANGED <<fs, result, src_pos, dst_pos, current_offset, resume_state,
                                    transferred>>
                ELSE IF ~writeOk
                THEN /\ Return(IoResult(Err("Io"), FALSE))
                     /\ UNCHANGED <<fs, src_pos, dst_pos, current_offset, resume_state, transferred>>
                ELSE /\ src_pos' = src_pos + bytes_read
                     /\ dst_pos' = dst_pos + bytes_read
                     /\ current_offset' = offset
                     /\ transferred' = transferred + bytes_read
                     /\ IF SavePoint(offset, bytes_read)
                        THEN /\ resume_state' = SomeState(state)
                             /\ fs' = SaveBestEffort(f1, state, saveOk)
                        ELSE /\ fs' = f1
                             /\ UNCHANGED resume_state
                     /\ UNCHANGED <<pc, result>>
             /\ hist' = [hist EXCEPT !.save_failed =
                            @ \/ (readOk /\ writeOk /\ ~saveOk /\ bytes_read > 0
                                    /\ SavePoint(offset, bytes_read))]
    /\ UNCHANGED <<req, rest, fs0, total_size, src_modified, write_target>>

\* copy.rs:186-193: the staging file is renamed onto the target
CopyRename ==
    /\ req.op = "copy" /\ pc = "rename"
    /\ \E ok \in BOOLEAN :
         IF ~req.atomic
         THEN pc' = "verify" /\ UNCHANGED <<fs, result>>
         ELSE IF ok /\ IsFile(fs, write_target) /\ ~IsDir(fs, req.target)
         THEN /\ fs' = RenameFile(fs, write_target, req.target)
              /\ pc' = "verify"
              /\ UNCHANGED result
         ELSE Return(IoResult(Err("Io"), ok)) /\ UNCHANGED fs
    /\ UNCHANGED <<req, rest, transferred, fs0, locals, hist>>

\* A verification that reports the two digests in each other's place
verify_copy_swapped(f, source, target, readOk) ==
    IF ~readOk \/ ~IsFile(f, source) \/ ~IsFile(f, target) THEN IoResult(Err("Io"), readOk)
    ELSE IF compute_checksum(f, source) = compute_checksum(f, target) THEN Ok
    ELSE ChecksumMismatch(compute_checksum(f, target), compute_checksum(f, source))

\* FileCopier::verify_copy / ParallelFileCopier::verify_copy
verify_copy(f, source, target, readOk) ==
    IF ~readOk \/ ~IsFile(f, source) \/ ~IsFile(f, target) THEN IoResult(Err("Io"), readOk)
    ELSE IF compute_checksum(f, source) = compute_checksum(f, target) THEN Ok
    ELSE ChecksumMismatch(compute_checksum(f, source), compute_checksum(f, target))

\* copy.rs:195-198
CopyVerify ==
    /\ req.op = "copy" /\ pc = "verify"
    /\ \E readOk \in BOOLEAN :
         IF ~req.verify
         THEN pc' = "cleanup" /\ UNCHANGED <<result, hist>>
         ELSE LET v == verify_copy(fs, req.source, req.target, readOk)
              IN  IF v = Ok
                  THEN /\ pc' = "cleanup"
                       /\ hist' = [hist EXCEPT !.verified = TRUE, !.verify_ran = TRUE]
                       /\ UNCHANGED result
                  ELSE /\ Return(v)
                       /\ hist' = [hist EXCEPT !.verify_ran = (v.kind # "Io")]
    /\ UNCHANGED <<req, rest, transferred, fs, fs0, locals>>

\* ResumeState::cleanup
\* A cleanup that leaves the sidecar where it is
cleanup_kept(f, r) == f
cleanup(f, r) ==
    IF Exists(f, state_file_path(r.target)) THEN Del(f, state_file_path(r.target)) ELSE f

\* copy.rs:200-206: the record is removed (best effort: a failure of the
\* removal is dropped by .ok()) and Ok returned
CopyCleanup ==
    /\ req.op = "copy" /\ pc = "cleanup"
    /\ \E ok \in BOOLEAN :
         /\ fs' = IF resume_state.some /\ ok THEN cleanup(fs, resume_state.rec) ELSE fs
         /\ Return(IoResult(Ok, ok \/ ~resume_state.some
                                   \/ ~Exists(fs, state_file_path(resume_state.rec.target))))
    /\ UNCHANGED <<req, rest, transferred, fs0, locals, hist>>

NextCopy ==
    \/ CopyStat
    \/ CopyLoadResume
    \/ CopyPromptResume
    \/ CopyHandleOverwrite
    \/ CopyCreateParent
    \/ CopyOpen
    \/ CopyChunk
    \/ CopyRename
    \/ CopyVerify
    \/ CopyCleanup

SpecCopy == InitCopy /\ [][NextCopy]_vars

(***************************************************************************)
(* ParallelFileCopier                                                      *)
(***************************************************************************)
InitParallel ==
    /\ \E threads \in 0..MaxThreads, verify \in BOOLEAN, size \in Sizes, dst \in DstStates :
         /\ req = [op |-> "pcopy", source |-> A_TXT, target |-> B_TXT,
                   overwrite_mode |-> "Always", verify |-> verify, resume |-> FALSE,
                   atomic |-> FALSE, parallel_threads |-> threads]
         /\ fs = InitFs(A_TXT, B_TXT, size, dst, [kind |-> "absent", entry |-> DirEntry])
    /\ fs0 = fs
    /\ InitLocals

\* parallel.rs:36-48
ParStat ==
    /\ req.op = "pcopy" /\ pc = "start"
    /\ \E ok \in BOOLEAN, kind \in StatErrors :
         IF ~Exists(fs, req.source)
         THEN /\ Return(StatError("NotFound"))
              /\ hist' = [hist EXCEPT !.stat_error = "NotFound"]
              /\ UNCHANGED total_size
         ELSE IF ~ok
         THEN /\ Return(IoResult(StatError(kind), FALSE))
              /\ hist' = [hist EXCEPT !.stat_error = kind]
              /\ UNCHANGED total_size
         ELSE IF fs[req.source].kind # "file"
         THEN Return(Custom("Source is not a file")) /\ UNCHANGED <<total_size, hist>>
         ELSE /\ total_size' = Len(fs[req.source].data)
              /\ pc' = IF Len(fs[req.source].data) < CHUNK_SIZE THEN "seq_open" ELSE "allocate"
              /\ UNCHANGED <<result, hist>>
    /\ UNCHANGED <<req, fs, fs0, src_modified, resume_state, write_target, src_pos, dst_pos,
                   current_offset, rest, transferred>>

\* parallel.rs:63-66 (sequential_copy: open the source, create the target)
ParSeqOpen ==
    /\ req.op = "pcopy" /\ pc = "seq_open"
    /\ \E ok \in BOOLEAN :
         IF ~ok \/ ~IsFile(fs, req.source) \/ IsDir(fs, req.target)
         THEN Return(IoResult(Err("Io"), ok)) /\ UNCHANGED <<fs, hist>>
         ELSE /\ fs' = CreateTruncate(fs, req.target)
              /\ hist' = [hist EXCEPT !.copied = TRUE]
              /\ pc' = "seq_loop"
              /\ UNCHANGED result
    /\ UNCHANGED <<req, fs0, locals, rest, transferred>>

\* parallel.rs:68-80 (sequential_copy: the loop, then Ok without any verification)
ParSeqChunk ==
    /\ req.op = "pcopy" /\ pc = "seq_loop"
    /\ \E readOk \in BOOLEAN, writeOk \in BOOLEAN :
         LET buffer == ReadAt(fs, req.source, src_pos)
             bytes_read == Len(buffer)
         IN  IF ~readOk
             THEN Return(IoResult(Err("Io"), FALSE))
                  /\ UNCHANGED <<fs, src_pos, dst_pos, transferred>>
             ELSE IF bytes_read = 0
             THEN Return(Ok) /\ UNCHANGED <<fs, src_pos, dst_pos, transferred>>
             ELSE IF ~writeOk
             THEN Return(IoResult(Err("Io"), FALSE))
                  /\ UNCHANGED <<fs, src_pos, dst_pos, transferred>>
             ELSE /\ fs' = WriteAt(fs, req.target, dst_pos, buffer)
                  /\ src_pos' = src_pos + bytes_read
                  /\ dst_pos' = dst_pos + bytes_read
                  /\ transferred' = transferred + bytes_read
                  /\ UNCHANGED <<pc, result>>
    /\ UNCHANGED <<req, fs0, total_size, src_modified, resume_state, write_target,
                   current_offset, rest, hist>>

\* parallel.rs:94-95
NumChunks(size) == (size + CHUNK_SIZE - 1) \div CHUNK_SIZE
ActualThreads(parallel_threads, num_chunks) == Min(parallel_threads, num_chunks)

\* parallel.rs:144: (thread_id..total_chunks).step_by(num_threads), as the
\* iterator yields it: the next index after k, while below total_chunks
\* An iterator that strides one index too far
StepByNextSkipping(k, num_threads) == k + num_threads + 1
StepByNext(k, num_threads) == k + num_threads
StepByDone(k, total_chunks) == k >= total_chunks

\* File::set_len on the fresh target: total_size bytes of zeros
Preallocate(f, p, size) == Put(f, p, FileEntry(Zeros(size), Now))

\* parallel.rs:85-120: the target is created and sized, the workers spawned
ParAllocate ==
    /\ req.op = "pcopy" /\ pc = "allocate"
    /\ \E ok \in BOOLEAN :
         IF ~ok \/ IsDir(fs, req.target)
         THEN Return(IoResult(Err("Io"), ok)) /\ UNCHANGED <<fs, workers, hist>>
         ELSE LET actual_threads ==
                      ActualThreads(req.parallel_threads, NumChunks(total_size))
              IN  /\ fs' = Preallocate(fs, req.target, total_size)
                  /\ workers' = [thread_id \in 0..(actual_threads - 1) |->
                                   [state |-> "running", chunk_idx |-> thread_id,
                                    fault |-> FALSE]]
                  /\ hist' = [hist EXCEPT !.copied = TRUE]
                  /\ pc' = "join"
                  /\ UNCHANGED result
    /\ UNCHANGED <<req, fs0, locals, joined, transferred, visited, files_to_copy, frames>>

\* A chunk offset computed with half the chunk size
ChunkOffsetHalved(chunk_idx) == chunk_idx * (CHUNK_SIZE \div 2)
\* parallel.rs:145: where chunk chunk_idx starts in both files
ChunkOffset(chunk_idx) == chunk_idx * CHUNK_SIZE

\* parallel.rs:148,151: how copy_chunk opens its two handles. File::open opens
\* read-only, and a write through a read-only handle fails (EBADF).
SrcHandleMode == "read"
DstHandleMode == "read"
CanWrite(mode) == mode \in {"write", "read_write"}

\* parallel.rs:144-165: one turn of a worker's chunk loop
ParWorkerChunk(thread_id) ==
    /\ req.op = "pcopy"
    /\ thread_id \in DOMAIN workers
    /\ workers[thread_id].state = "running"
    /\ LET chunk_idx == workers[thread_id].chunk_idx
           total_chunks == NumChunks(total_size)
           num_threads == ActualThreads(req.parallel_threads, total_chunks)
           offset == ChunkOffset(chunk_idx)
           set(st) == [workers EXCEPT ![thread_id].state = st]
           issued(n) == IF n = 0 THEN hist
                        ELSE [hist EXCEPT !.writes =
                                @ \cup {[thread_id |-> thread_id, chunk_idx |-> chunk_idx,
                                         offset |-> offset, length |-> n]}]
       IN  IF StepByDone(chunk_idx, total_chunks)
           THEN workers' = set("ok") /\ UNCHANGED <<fs, transferred, hist>>
           ELSE \E ok \in BOOLEAN :
                  IF ~ok \/ ~IsFile(fs, req.source) \/ ~IsFile(fs, req.target)
                  THEN /\ workers' = [workers EXCEPT ![thread_id].state = "Io",
                                                      ![thread_id].fault = ~ok]
                       /\ UNCHANGED <<fs, transferred, hist>>
                  ELSE LET buffer == ReadAt(fs, req.source, offset)
                           bytes_read == Len(buffer)
                       IN  /\ hist' = issued(bytes_read)
                           /\ IF bytes_read > 0 /\ ~CanWrite(DstHandleMode)
                              THEN workers' = set("Io") /\ UNCHANGED <<fs, transferred>>
                              ELSE /\ fs' = IF bytes_read > 0
                                            THEN WriteAt(fs, req.target, offset, buffer)
                                            ELSE fs
                                   /\ transferred' = transferred + bytes_read
                                   /\ workers' =
                                        [workers EXCEPT ![thread_id].chunk_idx =
                                                            StepByNext(chunk_idx, num_threads)]
    /\ UNCHANGED <<req, fs0, pc, result, locals, joined, visited, files_to_copy, frames>>

\* An await that takes every finished worker for a successful one
HandleResultIgnored(w) == Ok
\* parallel.rs:124-125: what awaiting the handle of a finished worker yields
HandleResult(w) ==
    IF w.state = "ok" THEN Ok ELSE IoResult(Custom("Thread error"), ~w.fault)

\* parallel.rs:122-129: the handles are awaited in spawn order; the first
\* worker error is returned as Custom("Thread error: ...")
ParJoin ==
    /\ req.op = "pcopy" /\ pc = "join"
    /\ IF joined = Cardinality(DOMAIN workers)
       THEN pc' = "verify" /\ UNCHANGED <<result, joined>>
       ELSE /\ workers[joined].state # "running"
            /\ IF HandleResult(workers[joined]) = Ok
               THEN joined' = joined + 1 /\ UNCHANGED <<pc, result>>
               ELSE /\ Return(HandleResult(workers[joined]))
                    /\ UNCHANGED joined
    /\ UNCHANGED <<req, fs, fs0, locals, workers, transferred, visited, files_to_copy, frames, hist>>

\* parallel.rs:53-58
ParVerify ==
    /\ req.op = "pcopy" /\ pc = "verify"
    /\ \E readOk \in BOOLEAN :
         IF ~req.verify
         THEN Return(Ok) /\ UNCHANGED hist
         ELSE LET v == verify_copy(fs, req.source, req.target, readOk)
              IN  /\ Return(v)
                  /\ hist' = [hist EXCEPT !.verified = (v = Ok),
                                           !.verify_ran = (v.kind # "Io")]
    /\ UNCHANGED <<req, fs, fs0, locals, rest, transferred>>

NextParallel ==
    \/ ParStat
    \/ ParSeqOpen
    \/ ParSeqChunk
    \/ ParAllocate
    \/ \E thread_id \in 0..(MaxThreads - 1) : ParWorkerChunk(thread_id)
    \/ ParJoin
    \/ ParVerify

SpecParallel == InitParallel /\ [][NextParallel]_vars

(***************************************************************************)
(* FileMover::move_file                                                    *)
(***************************************************************************)
MoveSizes == {0, 1, CHUNK_SIZE + 1, Several * CHUNK_SIZE}
InitMove ==
    /\ \E mode \in OverwriteModes, size \in MoveSizes, dst \in DstStates :
         /\ req = [op |-> "move", source |-> A_TXT, target |-> B_TXT,
                   overwrite_mode |-> mode, verify |-> FALSE, resume |-> FALSE,
                   atomic |-> FALSE, parallel_threads |-> 0]
         /\ fs = InitFs(A_TXT, B_TXT, size, dst, [kind |-> "absent", entry |-> DirEntry])
    /\ fs0 = fs
    /\ InitLocals

\* move.rs:34-40
MoveStat ==
    /\ req.op = "move" /\ pc = "start"
    /\ \E ok \in BOOLEAN :
         IF ~Exists(fs, req.source)
         THEN Return(Err("SourceNotFound")) /\ UNCHANGED <<total_size, src_modified>>
         ELSE IF ~ok
         THEN Return(IoResult(Err("Io"), ok)) /\ UNCHANGED <<total_size, src_modified>>
         ELSE /\ total_size' = Len(fs[req.source].data)
              /\ src_modified' = fs[req.source].mtime
              /\ pc' = "overwrite"
              /\ UNCHANGED result
    /\ UNCHANGED <<req, rest, transferred, fs, fs0, resume_state, write_target, src_pos,
                   dst_pos, current_offset, hist>>

\* move.rs:42-45
MoveHandleOverwrite ==
    /\ req.op = "move" /\ pc = "overwrite"
    /\ IF Exists(fs, req.target)
       THEN \E choice \in OverwriteChoices, metaOk \in BOOLEAN :
              LET d == handle_overwrite(req.overwrite_mode, choice, metaOk,
                                        src_modified, fs[req.target].mtime)
              IN  /\ hist' = [hist EXCEPT !.decision = d,
                                !.dst_at_decision =
                                    Compare(src_modified, fs[req.target].mtime)]
                  /\ IF d = "Proceed" THEN pc' = "mkdir" /\ UNCHANGED result
                     ELSE Return(DecisionError(d))
       ELSE pc' = "mkdir" /\ UNCHANGED <<result, hist>>
    /\ UNCHANGED <<req, rest, transferred, fs, fs0, locals>>

\* move.rs:47-51
MoveCreateParent ==
    /\ req.op = "move" /\ pc = "mkdir"
    /\ \E ok \in BOOLEAN :
         IF Len(req.target) = 0
         THEN pc' = "rename" /\ UNCHANGED <<fs, result>>
         ELSE IF ok /\ CreateDirAllOk(fs, Parent(req.target))
         THEN fs' = CreateDirAll(fs, Parent(req.target)) /\ pc' = "rename" /\ UNCHANGED result
         ELSE Return(IoResult(Custom("Failed to create parent directory"), ok))
              /\ UNCHANGED fs
    /\ UNCHANGED <<req, rest, transferred, fs0, locals, hist>>

\* What fs::rename can answer: success, or an error of one of these kinds.
\* std reports a rename across filesystems (EXDEV) as CrossesDevices;
\* InvalidInput is EINVAL and PermissionDenied is EACCES / EPERM.
RenameErrors == {"InvalidInput", "PermissionDenied", "CrossesDevices", "NotFound"}
RenameOutcomes == {"Ok"} \cup RenameErrors

\* move.rs:61-62, 181-182: the rename errors that lead to copy-then-delete
FallsBackToCopy(kind) == kind = "InvalidInput" \/ kind = "PermissionDenied"

\* fs::rename of a file or a directory with everything below it
RenameTree(f, a, b) ==
    LET kept == {q \in DOMAIN f : ~IsPrefix(a, q) /\ ~IsPrefix(b, q)}
        moved == {q \in DOMAIN f : IsPrefix(a, q)}
        To(q) == b \o SubSeq(q, Len(a) + 1, Len(q))
        From(q) == a \o SubSeq(q, Len(b) + 1, Len(q))
    IN  IF a = b THEN f
        ELSE [q \in kept \cup {To(m) : m \in moved} |->
                IF q \in kept THEN f[q] ELSE f[From(q)]]

\* Whether the filesystem lets the rename through at all
HasChildren(f, p) == \E q \in DOMAIN f : q # p /\ IsPrefix(p, q)
RenamePossible(f, a, b) ==
    IF ~Exists(f, a) THEN FALSE
    ELSE IF ~Exists(f, b) THEN TRUE
    ELSE f[a].kind = f[b].kind /\ ~HasChildren(f, b)

\* move.rs:53-76
MoveRename ==
    /\ req.op = "move" /\ pc = "rename"
    /\ \E outcome \in RenameOutcomes :
         /\ outcome = "Ok" => RenamePossible(fs, req.source, req.target)
         /\ hist' = [hist EXCEPT !.rename = outcome,
                                  !.fallback = FallsBackToCopy(outcome)]
         /\ IF outcome = "Ok"
            THEN fs' = RenameTree(fs, req.source, req.target) /\ Return(Ok)
            ELSE IF FallsBackToCopy(outcome)
            THEN pc' = "via_copy" /\ UNCHANGED <<fs, result>>
            ELSE Return(IoResult(Err("Io"), FALSE)) /\ UNCHANGED fs
    /\ UNCHANGED <<req, rest, transferred, fs0, locals>>

\* move.rs:81-90 (move_via_copy: stat and open the source, create the target)
MoveViaCopyOpen ==
    /\ req.op = "move" /\ pc = "via_copy"
    /\ \E ok \in BOOLEAN :
         IF ~ok \/ ~IsFile(fs, req.source) \/ IsDir(fs, req.target)
         THEN Return(IoResult(Err("Io"), ok)) /\ UNCHANGED <<fs, hist>>
         ELSE /\ fs' = CreateTruncate(fs, req.target)
              /\ hist' = [hist EXCEPT !.copied = TRUE]
              /\ pc' = "via_copy_loop"
              /\ UNCHANGED result
    /\ UNCHANGED <<req, rest, transferred, fs0, locals>>

\* move.rs:97-106
MoveViaCopyChunk ==
    /\ req.op = "move" /\ pc = "via_copy_loop"
    /\ \E readOk \in BOOLEAN, writeOk \in BOOLEAN :
         LET buffer == ReadAt(fs, req.source, src_pos)
             bytes_read == Len(buffer)
         IN  IF ~readOk
             THEN Return(IoResult(Err("Io"), FALSE))
                  /\ UNCHANGED <<fs, src_pos, dst_pos, transferred>>
             ELSE IF bytes_read = 0
             THEN pc' = "delete" /\ UNCHANGED <<fs, result, src_pos, dst_pos, transferred>>
             ELSE IF ~writeOk
             THEN Return(IoResult(Err("Io"), FALSE))
                  /\ UNCHANGED <<fs, src_pos, dst_pos, transferred>>
             ELSE /\ fs' = WriteAt(fs, req.target, dst_pos, buffer)
                  /\ src_pos' = src_pos + bytes_read
                  /\ dst_pos' = dst_pos + bytes_read
                  /\ transferred' = transferred + bytes_read
                  /\ UNCHANGED <<pc, result>>
    /\ hist' = [hist EXCEPT !.copy_ok = (pc' = "delete")]
    /\ UNCHANGED <<req, fs0, total_size, src_modified, resume_state, write_target,
                   current_offset, rest>>

\* fs::remove_dir_all / fs::remove_file
RemoveTree(f, p) == [q \in {x \in DOMAIN f : ~IsPrefix(p, x)} |-> f[q]]

\* move.rs:112-119
MoveDeleteSource ==
    /\ req.op = "move" /\ pc = "delete"
    /\ \E ok \in BOOLEAN :
         IF ok /\ Exists(fs, req.source)
         THEN /\ fs' = RemoveTree(fs, req.source)
              /\ hist' = [hist EXCEPT !.deleted = TRUE]
              /\ Return(Ok)
         ELSE Return(IoResult(Err("Io"), ok)) /\ UNCHANGED <<fs, hist>>
    /\ UNCHANGED <<req, rest, transferred, fs0, locals>>

NextMove ==
    \/ MoveStat
    \/ MoveHandleOverwrite
    \/ MoveCreateParent
    \/ MoveRename
    \/ MoveViaCopyOpen
    \/ MoveViaCopyChunk
    \/ MoveDeleteSource

SpecMove == InitMove /\ [][NextMove]_vars

(***************************************************************************)
(* copy_directory_impl and move_directory                                  *)
(***************************************************************************)
S_DIR == << <<"s">> >>
T_DIR == << <<"t">> >>
F_TXT == <<"f", "txt">>
G_TXT == <<"g", "txt">>
D_SUB == <<"d">>

\* Source trees, as maps from the path below the root to the entry there
Trees ==
    { <<>> :> DirEntry,
      (<<>> :> DirEntry) @@ (<<F_TXT>> :> FileEntry(Content(1), SrcMtime)),
      (<<>> :> DirEntry) @@ (<<F_TXT>> :> FileEntry(Content(1), SrcMtime))
          @@ (<<D_SUB>> :> DirEntry)
          @@ (<<D_SUB, G_TXT>> :> FileEntry(Content(CHUNK_SIZE + 1), SrcMtime)),
      <<>> :> FileEntry(Content(1), SrcMtime) }
\* What is at the target before the move
TargetTrees ==
    { <<>> :> DirEntry }
    \cup { (<<>> :> DirEntry) @@ (<<F_TXT>> :> FileEntry(OldContent, m)) : m \in {1, MaxMtime} }
Graft(f, root, tree) ==
    [q \in DOMAIN f \cup {root \o r : r \in DOMAIN tree} |->
        IF \E r \in DOMAIN tree : q = root \o r
        THEN tree[SubSeq(q, Len(root) + 1, Len(q))] ELSE f[q]]
EmptyFs == [q \in {} |-> DirEntry]

InitMoveDir ==
    /\ \E mode \in OverwriteModes, tree \in Trees, there \in BOOLEAN, tt \in TargetTrees :
         /\ req = [op |-> "movedir", source |-> S_DIR, target |-> T_DIR,
                   overwrite_mode |-> mode, verify |-> FALSE, resume |-> FALSE,
                   atomic |-> FALSE, parallel_threads |-> 0]
         /\ fs = IF there THEN Graft(Graft(EmptyFs, S_DIR, tree), T_DIR, tt)
                 ELSE Graft(EmptyFs, S_DIR, tree)
    /\ fs0 = fs
    /\ InitLocals

\* fs::read_dir: the names directly below p
Children(f, p) == {q[Len(p) + 1] : q \in {x \in DOMAIN f : IsPrefix(p, x) /\ Len(x) = Len(p) + 1}}

Frame(source, target) == [source |-> source, target |-> target, entered |-> FALSE, todo |-> {}]
Top == frames[Len(frames)]
Pop == SubSeq(frames, 1, Len(frames) - 1)

\* FileCopier::copy with resume and atomic off, run from start to end on one
\* file of a tree (copy.rs:43-102, 104-207): failAt = 0 is a run without I/O
\* failure, failAt = 1 a failure before the target is opened, failAt = k + 2
\* a failure of the write of chunk k. The parent of the target is created
\* first (copy.rs:92-97); a run that ends well removes the sidecar of its
\* target, whoever wrote it (copy.rs:200-203).
NumChunksOf(data) == (Len(data) + CHUNK_SIZE - 1) \div CHUNK_SIZE
\* A per-file move: the source file is removed as soon as its copy is complete
CopyWholeFileMoving(f, source, target, mode, choice, metaOk, failAt, verify) ==
    IF IsFile(f, source) /\ ~Exists(f, target) /\ failAt = 0
    THEN [fs |-> Del(Put(f, target, FileEntry(f[source].data, Now)), source), result |-> Ok]
    ELSE [fs |-> f, result |-> IoResult(Err("Io"), FALSE)]
CopyWholeFile(f, source, target, mode, choice, metaOk, failAt, verify) ==
    LET d == IF Exists(f, target)
             THEN handle_overwrite(mode, choice, metaOk, f[source].mtime, f[target].mtime)
             ELSE "Proceed"
        data == f[source].data
        parented == CreateDirAll(f, Parent(target))
        opened == CreateTruncate(parented, target)
        written == [opened EXCEPT ![target].data = data]
        partial == [opened EXCEPT ![target].data =
                        SubSeq(data, 1, Min((failAt - 2) * CHUNK_SIZE, Len(data)))]
        verified == IF verify THEN verify_copy(written, source, target, TRUE) ELSE Ok
        state_file == state_file_path(target)
        cleaned == IF IsFile(written, state_file) THEN Del(written, state_file) ELSE written
    IN  IF ~IsFile(f, source) THEN [fs |-> f, result |-> Custom("Source is not a file")]
        ELSE IF d # "Proceed" THEN [fs |-> f, result |-> DecisionError(d)]
        ELSE IF failAt = 1 \/ IsDir(f, target) \/ ~CreateDirAllOk(f, Parent(target))
        THEN [fs |-> f, result |-> IoResult(Err("Io"), failAt # 1)]
        ELSE IF failAt >= 2 /\ failAt - 2 < NumChunksOf(data)
        THEN [fs |-> partial, result |-> IoResult(Err("Io"), FALSE)]
        ELSE IF verified # Ok THEN [fs |-> written, result |-> verified]
        ELSE [fs |-> cleaned, result |-> Ok]
MaxFailAt == 3

\* copy.rs:278-289 (entry of copy_directory_impl up to read_dir)
DirEnter ==
    /\ pc = "dir_copy" /\ Len(frames) > 0 /\ ~Top.entered
    /\ \E ok \in BOOLEAN :
         IF ~IsDir(fs, Top.source)
         THEN Return(Custom("Source is not a directory")) /\ UNCHANGED <<fs, frames>>
         ELSE IF ~(ok /\ CreateDirAllOk(fs, Top.target))
         THEN Return(IoResult(Err("Io"), ok)) /\ UNCHANGED <<fs, frames>>
         ELSE /\ fs' = CreateDirAll(fs, Top.target)
              /\ frames' = [frames EXCEPT ![Len(frames)] =
                               [Top EXCEPT !.entered = TRUE,
                                           !.todo = Children(fs', Top.source)]]
              /\ UNCHANGED <<pc, result>>
    /\ UNCHANGED <<req, fs0, locals, workers, joined, visited, files_to_copy, transferred, hist>>

\* copy.rs:290-308 (one entry of the walk, in the order read_dir yields them)
DirEntryStep ==
    /\ pc = "dir_copy" /\ Len(frames) > 0 /\ Top.entered /\ Top.todo # {}
    /\ \E name \in Top.todo, choice \in OverwriteChoices, metaOk \in BOOLEAN,
          failAt \in 0..MaxFailAt :
         LET path == Append(Top.source, name)
             target_path == Append(Top.target, name)
             rest_of_walk == [frames EXCEPT ![Len(frames)] =
                                 [Top EXCEPT !.todo = Top.todo \ {name}]]
             r == CopyWholeFile(fs, path, target_path, req.overwrite_mode, choice,
                                metaOk, failAt, req.verify)
         IN  IF IsDir(fs, path)
             THEN /\ choice = "Overwrite" /\ metaOk /\ failAt = 0
                  /\ frames' = Append(rest_of_walk, Frame(path, target_path))
                  /\ UNCHANGED <<fs, pc, result, hist>>
             ELSE /\ fs' = r.fs
                  /\ hist' = [hist EXCEPT !.started = @ \cup {target_path}]
                  /\ IF r.result = Ok
                     THEN frames' = rest_of_walk /\ UNCHANGED <<pc, result>>
                     ELSE Return(r.result) /\ UNCHANGED frames
    /\ UNCHANGED <<req, fs0, locals, workers, joined, visited, files_to_copy, transferred>>

\* copy.rs:311 (Ok(()) of one copy_directory_impl), move.rs:209-212
DirLeave ==
    /\ pc = "dir_copy" /\ Len(frames) > 0 /\ Top.entered /\ Top.todo = {}
    /\ frames' = Pop
    /\ IF Len(frames) > 1 THEN UNCHANGED <<pc, result>>
       ELSE IF req.op = "movedir" THEN pc' = "dir_delete" /\ UNCHANGED result
       ELSE Return(Ok)
    /\ hist' = [hist EXCEPT !.copy_ok = (Len(frames) = 1)]
    /\ UNCHANGED <<req, fs, fs0, locals, workers, joined, visited, files_to_copy, transferred>>

\* move.rs:169-171
MoveDirStat ==
    /\ req.op = "movedir" /\ pc = "start"
    /\ IF ~IsDir(fs, req.source)
       THEN Return(Custom("Source is not a directory"))
       ELSE pc' = "rename" /\ UNCHANGED result
    /\ UNCHANGED <<req, rest, transferred, fs, fs0, locals, hist>>

\* move.rs:174-196, 209
MoveDirRename ==
    /\ req.op = "movedir" /\ pc = "rename"
    /\ \E outcome \in RenameOutcomes :
         /\ outcome = "Ok" => RenamePossible(fs, req.source, req.target)
         /\ IF outcome = "Ok"
            THEN /\ fs' = RenameTree(fs, req.source, req.target)
                 /\ hist' = [hist EXCEPT !.rename = outcome]
                 /\ Return(Ok)
                 /\ UNCHANGED frames
            ELSE IF FallsBackToCopy(outcome)
            THEN /\ pc' = "dir_copy"
                 /\ frames' = <<Frame(req.source, req.target)>>
                 /\ hist' = [hist EXCEPT !.rename = outcome, !.fallback = TRUE,
                                         !.copied = TRUE]
                 /\ UNCHANGED <<fs, result>>
            ELSE /\ hist' = [hist EXCEPT !.rename = outcome]
                 /\ Return(IoResult(Err("Io"), FALSE))
                 /\ UNCHANGED <<fs, frames>>
    /\ UNCHANGED <<req, fs0, locals, workers, joined, visited, files_to_copy, transferred>>

\* move.rs:212-218
MoveDirDelete ==
    /\ req.op = "movedir" /\ pc = "dir_delete"
    /\ \E ok \in BOOLEAN :
         IF ok /\ Exists(fs, req.source)
         THEN /\ fs' = RemoveTree(fs, req.source)
              /\ hist' = [hist EXCEPT !.deleted = TRUE]
              /\ Return(Ok)
         ELSE Return(IoResult(Err("Io"), ok)) /\ UNCHANGED <<fs, hist>>
    /\ UNCHANGED <<req, rest, transferred, fs0, locals>>

NextMoveDir ==
    \/ MoveDirStat
    \/ MoveDirRename
    \/ DirEnter
    \/ DirEntryStep
    \/ DirLeave
    \/ MoveDirDelete

SpecMoveDir == InitMoveDir /\ [][NextMoveDir]_vars

(***************************************************************************)
(* copy_directory and parallel_copy_directory                              *)
(***************************************************************************)
MaxFiles == 4
\* The name of the i-th file of a flat tree: "f", "f.f", "f.f.f", ...
FlatName(i) == [j \in 1..i |-> "f"]
\* A directory holding n files of one byte each
FlatTree(n) ==
    [r \in {<<>>} \cup {<<FlatName(i)>> : i \in 1..n} |->
        IF r = <<>> THEN DirEntry ELSE FileEntry(Content(1), SrcMtime)]
\* A directory holding a file and a file that bears the name of its sidecar
F_STATE == <<"f", "txt", "better-cp", "state">>
SidecarTree ==
    (<<>> :> DirEntry) @@ (<<F_TXT>> :> FileEntry(Content(1), SrcMtime))
        @@ (<<F_STATE>> :> FileEntry(Content(2), SrcMtime))
CopyTrees == Trees \cup {SidecarTree} \cup {FlatTree(n) : n \in 2..MaxFiles}

InitCopyDir ==
    /\ \E mode \in OverwriteModes, verify \in BOOLEAN, tree \in CopyTrees,
          there \in BOOLEAN, tt \in TargetTrees :
         /\ req = [op |-> "copydir", source |-> S_DIR, target |-> T_DIR,
                   overwrite_mode |-> mode, verify |-> verify, resume |-> FALSE,
                   atomic |-> FALSE, parallel_threads |-> 0]
         /\ fs = IF there THEN Graft(Graft(EmptyFs, S_DIR, tree), T_DIR, tt)
                 ELSE Graft(EmptyFs, S_DIR, tree)
    /\ fs0 = fs
    /\ InitLocals

\* copy.rs:261-269: copy_directory calls copy_directory_impl on the roots
CopyDirStart ==
    /\ req.op = "copydir" /\ pc = "start"
    /\ pc' = "dir_copy"
    /\ frames' = <<Frame(req.source, req.target)>>
    /\ UNCHANGED <<req, fs, fs0, result, locals, workers, joined, visited, files_to_copy,
                   transferred, hist>>

NextCopyDir ==
    \/ CopyDirStart
    \/ DirEnter
    \/ DirEntryStep
    \/ DirLeave

SpecCopyDir == InitCopyDir /\ [][NextCopyDir]_vars

InitParDir ==
    /\ \E threads \in 0..MaxThreads, tree \in CopyTrees, there \in BOOLEAN, tt \in TargetTrees :
         /\ req = [op |-> "pardir", source |-> S_DIR, target |-> T_DIR,
                   overwrite_mode |-> "Always", verify |-> FALSE, resume |-> FALSE,
                   atomic |-> FALSE, parallel_threads |-> threads]
         /\ fs = IF there THEN Graft(Graft(EmptyFs, S_DIR, tree), T_DIR, tt)
                 ELSE Graft(EmptyFs, S_DIR, tree)
    /\ fs0 = fs
    /\ InitLocals

\* parallel.rs:192-200: the source is a directory, the target root is created
\* and collect_files_recursive is entered on the roots
ParDirStart ==
    /\ req.op = "pardir" /\ pc = "start"
    /\ \E ok \in BOOLEAN :
         IF ~IsDir(fs, req.source)
         THEN Return(Custom("Source is not a directory")) /\ UNCHANGED <<fs, frames>>
         ELSE IF ~(ok /\ CreateDirAllOk(fs, req.target))
         THEN Return(IoResult(Err("Io"), ok)) /\ UNCHANGED <<fs, frames>>
         ELSE /\ fs' = CreateDirAll(fs, req.target)
              /\ frames' = <<[Frame(req.source, req.target) EXCEPT
                                 !.entered = TRUE, !.todo = Children(fs, req.source)]>>
              /\ pc' = "collect"
              /\ UNCHANGED result
    /\ UNCHANGED <<req, fs0, locals, workers, joined, visited, files_to_copy, transferred,
                   hist>>

\* parallel.rs:273-286: one entry of read_dir, in the order it yields them: a
\* directory is created at the target and entered, a file is pushed
ParDirCollect ==
    /\ req.op = "pardir" /\ pc = "collect" /\ Len(frames) > 0 /\ Top.todo # {}
    /\ \E name \in Top.todo, ok \in BOOLEAN :
         LET path == Append(Top.source, name)
             target_path == Append(Top.target, name)
             rest_of_walk == [frames EXCEPT ![Len(frames)] =
                                 [Top EXCEPT !.todo = Top.todo \ {name}]]
         IN  IF ~ok
             THEN Return(IoResult(Err("Io"), FALSE))
                  /\ UNCHANGED <<fs, frames, files_to_copy>>
             ELSE IF IsDir(fs, path)
             THEN IF ~CreateDirAllOk(fs, target_path)
                  THEN Return(Err("Io")) /\ UNCHANGED <<fs, frames, files_to_copy>>
                  ELSE /\ fs' = CreateDirAll(fs, target_path)
                       /\ frames' = Append(rest_of_walk,
                                           [Frame(path, target_path) EXCEPT
                                               !.entered = TRUE,
                                               !.todo = Children(fs, path)])
                       /\ UNCHANGED <<pc, result, files_to_copy>>
             ELSE /\ files_to_copy' = Append(files_to_copy,
                                             [src |-> path, dst |-> target_path])
                  /\ frames' = rest_of_walk
                  /\ UNCHANGED <<fs, pc, result>>
    /\ UNCHANGED <<req, fs0, locals, workers, joined, visited, transferred, hist>>

\* parallel.rs:288 (Ok(()) of one collect_files_recursive), 202-204
ParDirCollected ==
    /\ req.op = "pardir" /\ pc = "collect" /\ Len(frames) > 0 /\ Top.todo = {}
    /\ frames' = Pop
    /\ IF Len(frames) > 1 THEN UNCHANGED <<pc, result>>
       ELSE IF Len(files_to_copy) = 0 THEN Return(Ok)
       ELSE pc' = "split" /\ UNCHANGED result
    /\ UNCHANGED <<req, fs, fs0, locals, workers, joined, visited, files_to_copy, transferred,
                   hist>>

\* A split that rounds the slice length down
SliceLenFloor(len, parallel_threads) == len \div parallel_threads
\* parallel.rs:213: the slice length, the list length over the workers, rounded up
SliceLen(len, parallel_threads) == (len + parallel_threads - 1) \div parallel_threads
\* parallel.rs:217-218
SliceStart(thread_idx, chunk_size) == thread_idx * chunk_size
SliceEnd(start, chunk_size, len) == Min(start + chunk_size, len)
\* parallel.rs:216-222: the workers the loop spawns before it breaks
Spawned(len, parallel_threads) ==
    {thread_idx \in 0..(parallel_threads - 1) :
        SliceStart(thread_idx, SliceLen(len, parallel_threads)) < len}

\* parallel.rs:213-255: the list is cut into slices and a worker spawned for
\* each; a division by zero panics
ParDirSplit ==
    /\ req.op = "pardir" /\ pc = "split"
    /\ IF req.parallel_threads = 0
       THEN Return(Err("Panic")) /\ UNCHANGED <<workers, visited>>
       ELSE LET len == Len(files_to_copy)
                chunk_size == SliceLen(len, req.parallel_threads)
            IN  /\ workers' = [thread_idx \in Spawned(len, req.parallel_threads) |->
                                 [state |-> "running",
                                  start |-> SliceStart(thread_idx, chunk_size),
                                  end |-> SliceEnd(SliceStart(thread_idx, chunk_size),
                                                   chunk_size, len),
                                  next |-> SliceStart(thread_idx, chunk_size),
                                  fault |-> FALSE]]
                /\ visited' = [i \in 0..(len - 1) |-> 0]
                /\ pc' = "join_files"
                /\ UNCHANGED result
    /\ UNCHANGED <<req, fs, fs0, locals, joined, files_to_copy, frames, transferred, hist>>

\* parallel.rs:228-250: a worker copies the next file of its slice: failAt = 0
\* is a copy without I/O failure, 1 a failure to open either file, 2 a failure
\* of the first write
ParDirWorkerFile(thread_idx) ==
    /\ req.op = "pardir"
    /\ thread_idx \in DOMAIN workers
    /\ workers[thread_idx].state = "running"
    /\ LET w == workers[thread_idx]
           file == files_to_copy[w.next + 1]
           set(st, fault) == [workers EXCEPT ![thread_idx].state = st,
                                             ![thread_idx].fault = fault]
       IN  IF w.next >= w.end
           THEN workers' = set("ok", FALSE) /\ UNCHANGED <<fs, visited, hist>>
           ELSE \E failAt \in 0..2 :
                  /\ visited' = [visited EXCEPT ![w.next] = @ + 1]
                  /\ hist' = [hist EXCEPT !.started = @ \cup {file.dst}]
                  /\ IF failAt = 1 \/ ~IsFile(fs, file.src) \/ IsDir(fs, file.dst)
                        \/ ~ParentExists(fs, file.dst)
                     THEN workers' = set("Io", failAt = 1) /\ UNCHANGED fs
                     ELSE IF failAt = 2 /\ Len(fs[file.src].data) > 0
                     THEN /\ workers' = set("Io", TRUE)
                          /\ fs' = CreateTruncate(fs, file.dst)
                     ELSE /\ workers' = [workers EXCEPT ![thread_idx].next = @ + 1]
                          /\ fs' = Put(fs, file.dst, FileEntry(fs[file.src].data, Now))
    /\ UNCHANGED <<req, fs0, pc, result, locals, joined, files_to_copy, frames, transferred>>

\* parallel.rs:257-261: the handles are awaited in spawn order; the first
\* worker error is returned as Custom("Thread error: ...")
ParDirJoin ==
    /\ req.op = "pardir" /\ pc = "join_files"
    /\ IF joined = Cardinality(DOMAIN workers)
       THEN Return(Ok) /\ UNCHANGED joined
       ELSE /\ workers[joined].state # "running"
            /\ IF workers[joined].state = "ok"
               THEN joined' = joined + 1 /\ UNCHANGED <<pc, result>>
               ELSE /\ Return(IoResult(Custom("Thread error"), ~workers[joined].fault))
                    /\ UNCHANGED joined
    /\ UNCHANGED <<req, fs, fs0, locals, workers, transferred, visited, files_to_copy, frames,
                   hist>>

NextParDir ==
    \/ ParDirStart
    \/ ParDirCollect
    \/ ParDirCollected
    \/ ParDirSplit
    \/ \E thread_idx \in 0..(MaxThreads - 1) : ParDirWorkerFile(thread_idx)
    \/ ParDirJoin

SpecParDir == InitParDir /\ [][NextParDir]_vars

\* both tree-copy strategies
InitTrees == InitCopyDir \/ InitParDir
NextTrees == NextCopyDir \/ NextParDir
SpecTrees == InitTrees /\ [][NextTrees]_vars

(***************************************************************************)
(* The chunk assignment of parallel_copy, walked to its end                *)
(***************************************************************************)
MaxChunks == 4
AssignSizes == {n * CHUNK_SIZE + d : n \in 1..(MaxChunks - 1), d \in {0, 1}}
                 \cup {MaxChunks * CHUNK_SIZE}

\* parallel.rs:93-120, with every worker positioned on its first index
InitAssign ==
    /\ \E threads \in 1..MaxThreads, size \in AssignSizes :
         /\ req = [op |-> "assign", source |-> A_TXT, target |-> B_TXT,
                   overwrite_mode |-> "Always", verify |-> FALSE, resume |-> FALSE,
                   atomic |-> FALSE, parallel_threads |-> threads]
         /\ fs = InitFs(A_TXT, B_TXT, size, [kind |-> "absent", entry |-> DirEntry],
                        [kind |-> "absent", entry |-> DirEntry])
         /\ total_size = size
         /\ workers = [thread_id \in 0..(ActualThreads(threads, NumChunks(size)) - 1) |->
                          [state |-> "running", chunk_idx |-> thread_id, fault |-> FALSE]]
         /\ visited = [c \in 0..(NumChunks(size) - 1) |-> 0]
         /\ files_to_copy = <<>>
    /\ fs0 = fs
    /\ pc = "assign"
    /\ result = NoResult
    /\ src_modified = 0
    /\ resume_state = NoState
    /\ write_target = <<>>
    /\ src_pos = 0
    /\ dst_pos = 0
    /\ current_offset = 0
    /\ joined = 0
    /\ transferred = 0
    /\ frames = <<>>
    /\ hist = NoHist

\* parallel.rs:144-160: the iterator of one worker yields its next index; the
\* worker seeks both files to the chunk's offset, reads up to a chunk of the
\* source there and addresses its write_all of the bytes read to that offset
AssignChunk(thread_id) ==
    /\ req.op = "assign" /\ pc = "assign"
    /\ thread_id \in DOMAIN workers
    /\ workers[thread_id].state = "running"
    /\ LET chunk_idx == workers[thread_id].chunk_idx
           total_chunks == NumChunks(total_size)
           num_threads == ActualThreads(req.parallel_threads, total_chunks)
           offset == ChunkOffset(chunk_idx)
           bytes_read == Len(ReadAt(fs, req.source, offset))
       IN  IF StepByDone(chunk_idx, total_chunks)
           THEN /\ workers' = [workers EXCEPT ![thread_id].state = "ok"]
                /\ UNCHANGED <<visited, hist>>
           ELSE /\ visited' = [visited EXCEPT ![chunk_idx] = @ + 1]
                /\ hist' = [hist EXCEPT !.writes =
                              @ \cup {[thread_id |-> thread_id, chunk_idx |-> chunk_idx,
                                       offset |-> offset, length |-> bytes_read]}]
                /\ workers' = [workers EXCEPT ![thread_id].chunk_idx =
                                                  StepByNext(chunk_idx, num_threads)]
    /\ UNCHANGED <<req, fs, fs0, pc, result, locals, joined, transferred, frames, files_to_copy>>

\* parallel.rs:123-126: every worker has run out of indices
AssignJoin ==
    /\ req.op = "assign" /\ pc = "assign"
    /\ \A t \in DOMAIN workers : workers[t].state = "ok"
    /\ Return(Ok)
    /\ UNCHANGED <<req, fs, fs0, locals, rest, transferred, hist>>

NextAssign ==
    \/ \E thread_id \in 0..(MaxThreads - 1) : AssignChunk(thread_id)
    \/ AssignJoin

SpecAssign == InitAssign /\ [][NextAssign]_vars

(***************************************************************************)
(* ResumeState records and validate                                        *)
(***************************************************************************)
\* A record is built range by range with mark_chunk_done, then validated.
InitLedger ==
    /\ \E size \in 0..(MaxOffset + 1) :
         /\ req = [op |-> "ledger", source |-> A_TXT, target |-> B_TXT,
                   overwrite_mode |-> "Always", verify |-> FALSE, resume |-> TRUE,
                   atomic |-> FALSE, parallel_threads |-> 0]
         /\ fs = InitFs(A_TXT, B_TXT, size, [kind |-> "absent", entry |-> DirEntry],
                        [kind |-> "absent", entry |-> DirEntry])
         /\ total_size = size
         /\ resume_state = SomeState(NewResumeState(A_TXT, B_TXT, size))
    /\ fs0 = fs
    /\ pc = "ledger"
    /\ result = NoResult
    /\ src_modified = 0
    /\ write_target = <<>>
    /\ src_pos = 0
    /\ dst_pos = 0
    /\ current_offset = 0
    /\ workers = <<>>
    /\ joined = 0
    /\ transferred = 0
    /\ visited = <<>>
    /\ files_to_copy = <<>>
    /\ frames = <<>>
    /\ hist = NoHist

\* resume.rs:84-90
LedgerMarkChunkDone ==
    /\ req.op = "ledger" /\ pc = "ledger"
    /\ Len(resume_state.rec.chunks_completed) < MaxRanges
    /\ \E offset \in 0..MaxOffset, length \in 0..MaxOffset :
         resume_state' = SomeState(mark_chunk_done(resume_state.rec, offset, length))
    /\ UNCHANGED <<req, fs, fs0, pc, result, total_size, src_modified, write_target,
                   src_pos, dst_pos, current_offset, rest, transferred, hist>>

\* resume.rs:98-112
LedgerValidate ==
    /\ req.op = "ledger" /\ pc = "ledger"
    /\ Return(IF validate(resume_state.rec) THEN Ok ELSE Err("InvalidResumeState"))
    /\ UNCHANGED <<req, fs, fs0, locals, rest, transferred, hist>>

NextLedger ==
    \/ LedgerMarkChunkDone
    \/ LedgerValidate

SpecLedger == InitLedger /\ [][NextLedger]_vars

(***************************************************************************)
(* A copy that is killed and run again                                     *)
(***************************************************************************)
MaxRuns == 2
ResumeSizes == {Several * CHUNK_SIZE, BigChunks * CHUNK_SIZE + 1}

InitResume ==
    /\ \E verify \in BOOLEAN, atomic \in BOOLEAN, size \in ResumeSizes :
         \E side \in SidecarStates(A_TXT, B_TXT, size) :
           /\ req = [op |-> "copy", source |-> A_TXT, target |-> B_TXT,
                     overwrite_mode |-> "Always", verify |-> verify, resume |-> TRUE,
                     atomic |-> atomic, parallel_threads |-> 0]
           /\ fs = InitFs(A_TXT, B_TXT, size, [kind |-> "absent", entry |-> DirEntry], side)
    /\ fs0 = fs
    /\ InitLocals

\* The process is killed: what it wrote stays, what it held in memory is lost.
Kill ==
    /\ req.op = "copy" /\ pc \notin {"start", "done", "killed"}
    /\ hist.runs < MaxRuns
    /\ pc' = "killed"
    /\ hist' = [hist EXCEPT !.killed_at = pc, !.killed_after = current_offset]
    /\ UNCHANGED <<req, fs, fs0, result, locals, rest, transferred>>

\* The same command is run again on what the killed run left behind.
Rerun ==
    /\ req.op = "copy" /\ pc = "killed"
    /\ pc' = "start"
    /\ result' = NoResult
    /\ total_size' = 0
    /\ src_modified' = 0
    /\ resume_state' = NoState
    /\ write_target' = <<>>
    /\ src_pos' = 0
    /\ dst_pos' = 0
    /\ current_offset' = 0
    /\ transferred' = 0
    /\ hist' = [NoHist EXCEPT !.runs = hist.runs + 1, !.killed_at = hist.killed_at,
                              !.killed_after = hist.killed_after]
    /\ UNCHANGED <<req, fs, fs0, rest>>

NextResume ==
    \/ NextCopy
    \/ Kill
    \/ Rerun

SpecResume == InitResume /\ [][NextResume]_vars

(***************************************************************************)
(* The engines side by side                                                *)
(***************************************************************************)
\* the overwrite protocol of the copier and of the mover
InitOverwrite == InitCopy \/ InitMove
NextOverwrite == NextCopy \/ NextMove
SpecOverwrite == InitOverwrite /\ [][NextOverwrite]_vars
\* verification in the sequential and in the parallel engine
InitVerify == InitCopy \/ InitParallel
NextVerify == NextCopy \/ NextParallel
SpecVerify == InitVerify /\ [][NextVerify]_vars
\* the move of a file and of a directory
InitMoves == InitMove \/ InitMoveDir
NextMoves == NextMove \/ NextMoveDir
SpecMoves == InitMoves /\ [][NextMoves]_vars
\* FileCopier::copy called with one path as source and as target
InitEngines == InitCopy \/ InitParallel \/ InitParDir
NextEngines == NextCopy \/ NextParallel \/ NextParDir
SpecEngines == InitEngines /\ [][NextEngines]_vars

InitSame ==
    /\ \E mode \in OverwriteModes, verify \in BOOLEAN, resume \in BOOLEAN,
          atomic \in BOOLEAN, size \in Sizes :
         \E side \in SidecarStates(A_TXT, A_TXT, size) :
           /\ req = [op |-> "copy", source |-> A_TXT, target |-> A_TXT,
                     overwrite_mode |-> mode, verify |-> verify, resume |-> resume,
                     atomic |-> atomic, parallel_threads |-> 0]
           /\ fs = InitFs(A_TXT, A_TXT, size, [kind |-> "absent", entry |-> DirEntry], side)
    /\ fs0 = fs
    /\ InitLocals
SpecSame == InitSame /\ [][NextCopy]_vars

(***************************************************************************)
(* Claims                                                                  *)
(***************************************************************************)
SourceData == fs0[req.source].data
Proceeded == hist.decision \in {"none", "Proceed"}
Finished == pc = "done" /\ ~result.fault
TargetExisted == Exists(fs0, req.target)
TargetUntouched == Exists(fs, req.target) /\ fs[req.target] = fs0[req.target]

\* C1: a FileCopier.copy with resume disabled, source and target distinct and
\* an overwrite decision of Proceed (or none needed) that returns Ok leaves
\* the target holding exactly the bytes the source held, whatever the size,
\* the prior target, and the atomic and verify flags.
C1_RoundTrip ==
    (req.op = "copy" /\ ~req.resume /\ req.source # req.target /\ Proceeded
       /\ result.kind = "Ok")
    => (IsFile(fs, req.target) /\ fs[req.target].data = SourceData)

\* C2: for a source of at least one chunk and at least one requested worker,
\* ParallelFileCopier.copy, when no I/O fails under it, returns Ok and leaves
\* the target holding the bytes a sequential copy writes (the source's bytes).
C2_ParallelEqualsSequential ==
    (req.op = "pcopy" /\ total_size >= CHUNK_SIZE /\ req.parallel_threads >= 1 /\ Finished)
    => (result.kind = "Ok" /\ IsFile(fs, req.target) /\ fs[req.target].data = SourceData)

\* ceil(S / C), said without the division the code uses
CeilChunks(size) ==
    CHOOSE n \in 0..(size + 1) : n * CHUNK_SIZE >= size /\ (n = 0 \/ (n - 1) * CHUNK_SIZE < size)

\* C3: with worker i taking the indices i, i + actual, i + 2 * actual, ...,
\* no chunk index is ever taken twice, and once every worker has run out of
\* indices each index of 0 .. ceil(S / C) - 1 has been taken exactly once.
C3_EveryChunkOnce ==
    req.op = "assign" =>
        /\ DOMAIN visited = 0..(CeilChunks(total_size) - 1)
        /\ \A c \in DOMAIN visited : visited[c] <= 1
        /\ pc = "done" => \A c \in 0..(CeilChunks(total_size) - 1) : visited[c] = 1

\* C3 witness: the walk has ended and some worker took more than one index
C3_Witness ==
    /\ req.op = "assign" /\ pc = "done"
    /\ Cardinality(DOMAIN workers) > 1
    /\ CeilChunks(total_size) > Cardinality(DOMAIN workers)

Ranges == resume_state.rec.chunks_completed
\* the ranges of cs that hold byte b
Holding(cs, b) == {i \in 1..Len(cs) : cs[i].offset <= b /\ b < cs[i].offset + cs[i].length}
\* cs tiles [0, n): every byte below n is in exactly one range, none reaches past n
Tiles(cs, n) ==
    /\ \A b \in 0..(n - 1) : Cardinality(Holding(cs, b)) = 1
    /\ \A i \in 1..Len(cs) : cs[i].offset + cs[i].length <= n
AllPositive(cs) == \A i \in 1..Len(cs) : cs[i].length > 0

\* C4: validate answers Ok exactly for the records whose ranges tile
\* [0, total_size) with no gap and no overlap.
C4_ValidateIffTilesTotal ==
    (req.op = "ledger" /\ pc = "done")
    => (result.kind = "Ok" <=> Tiles(Ranges, resume_state.rec.total_size))

\* C4, as the code has it: validate never reads total_size. A record it
\* accepts tiles [0, bytes_completed) with no gap and no overlap, so every
\* record with a gap or an overlap is rejected; and a record of non-empty
\* ranges that tiles [0, bytes_completed) is accepted.
C4_ValidateIffTilesCompleted ==
    (req.op = "ledger" /\ pc = "done")
    => /\ result.kind = "Ok" => Tiles(Ranges, bytes_completed(resume_state.rec))
       /\ (AllPositive(Ranges) /\ Tiles(Ranges, bytes_completed(resume_state.rec)))
             => result.kind = "Ok"
       /\ result.kind \in {"Ok", "InvalidResumeState"}

\* C4 witness: a record listed out of offset order, short of total_size, accepted
C4_Witness ==
    /\ req.op = "ledger" /\ pc = "done" /\ result.kind = "Ok"
    /\ Len(Ranges) >= 2 /\ Ranges[1].offset > Ranges[2].offset
    /\ bytes_completed(resume_state.rec) < resume_state.rec.total_size

\* C5: a copy with resume enabled, started with no target and no sidecar,
\* killed in its loop after some but not all bytes were written and run
\* again with resume enabled (a resume offer, if made, accepted), returns Ok
\* and leaves the target holding the source's bytes.
C5_ResumeAfterKill ==
    (req.op = "copy" /\ req.resume /\ DOMAIN fs0 = {req.source}
       /\ hist.runs = 2 /\ hist.killed_at = "loop"
       /\ hist.killed_after > 0 /\ hist.killed_after < Len(SourceData)
       /\ hist.offer # "restart" /\ Finished)
    => (result.kind = "Ok" /\ IsFile(fs, req.target) /\ fs[req.target].data = SourceData)

\* C6: in atomic mode the target path, at every state of a copy, is absent,
\* or holds what it held before the copy, or holds the source's bytes.
C6_AtomicAllOrNothing ==
    (req.op = "copy" /\ req.atomic /\ req.source # req.target)
    => \/ ~Exists(fs, req.target)
       \/ TargetExisted /\ fs[req.target].data = fs0[req.target].data
       \/ fs[req.target].data = SourceData

\* C7: with overwrite mode Never and a target that exists, the copier (any
\* flags, any sidecar) and the mover never change the target and return
\* TargetExists.
C7_NeverKeepsTarget ==
    (req.op \in {"copy", "move"} /\ req.overwrite_mode = "Never" /\ TargetExisted)
    => /\ TargetUntouched
       /\ Finished => result.kind = "TargetExists"

\* C8: in Smart mode with a target that exists, the copier and the mover go
\* on to overwrite exactly when the source's mtime is strictly newer than the
\* target's; otherwise they return TargetExists and the target is unchanged.
C8_SmartIffNewer ==
    (req.op \in {"copy", "move"} /\ req.overwrite_mode = "Smart" /\ TargetExisted)
    => IF fs0[req.source].mtime > fs0[req.target].mtime
       THEN hist.decision # "TargetExists" /\ result.kind # "TargetExists"
       ELSE /\ TargetUntouched
            /\ Finished => result.kind = "TargetExists"

\* what a file holds, bytes or text
Contents(f, p) == <<f[p].data, f[p].json>>

\* C9: when verify_copy (of either engine) has read both files: if they hold
\* different contents the result is ChecksumMismatch with expected the
\* source's digest and actual the target's, both present and unequal; if
\* they hold the same contents verification passes.
C9_VerifyCopy ==
    (req.op \in {"copy", "pcopy"} /\ hist.verify_ran)
    => IF Contents(fs, req.source) # Contents(fs, req.target)
       THEN /\ result.kind = "ChecksumMismatch"
            /\ result.expected = compute_checksum(fs, req.source)
            /\ result.actual = compute_checksum(fs, req.target)
            /\ result.expected # <<>> /\ result.actual # <<>>
            /\ result.expected # result.actual
       ELSE hist.verified /\ result.kind \in {"None", "Ok"}

\* C9 witness: a verification that found the target different from the source
C9_Witness ==
    /\ req.op \in {"copy", "pcopy"} /\ hist.verify_ran
    /\ result.kind = "ChecksumMismatch"
    /\ Len(fs[req.source].data) = Len(fs[req.target].data)

\* C10: after the rename attempt of move_file or move_directory: success
\* ends the move with no copy; a cross-device or a permission failure leads
\* to copy-then-delete; any other failure is returned, with nothing copied
\* and nothing deleted. (InvalidInput, which the code itself takes for a
\* cross-device failure, is left to go either way.)
C10_MoveStateMachine ==
    (req.op \in {"move", "movedir"} /\ hist.rename # "none")
    => CASE hist.rename = "Ok" ->
               pc = "done" /\ result.kind = "Ok" /\ ~hist.fallback /\ ~hist.copied
         [] hist.rename \in {"CrossesDevices", "PermissionDenied"} -> hist.fallback
         [] hist.rename = "InvalidInput" -> TRUE
         [] OTHER ->
               /\ pc = "done" /\ result.kind = "Io"
               /\ ~hist.fallback /\ ~hist.copied /\ ~hist.deleted
               /\ fs = fs0
\* The source of the move as it was before the move
SourceIntact ==
    \A q \in DOMAIN fs0 : IsPrefix(req.source, q) => q \in DOMAIN fs /\ fs[q] = fs0[q]

\* C11: in a copy-then-delete move of a file or of a directory the source is
\* deleted only after the copy step has reported success, and as long as the
\* copy step has not reported success (in particular when it failed and the
\* move returned) the source is still there with its original content
C11_DeleteOnlyAfterCopy ==
    req.op \in {"move", "movedir"} =>
        /\ hist.deleted => hist.fallback /\ hist.copy_ok
        /\ hist.fallback /\ ~hist.copy_ok => SourceIntact
\* a copy-then-delete move whose copy step failed after it had written to the
\* target, and which returned the error with the source intact
C11_Witness ==
    /\ hist.fallback /\ hist.copied /\ ~hist.copy_ok
    /\ pc = "done" /\ result.kind = "Io"
    /\ fs # fs0 /\ SourceIntact /\ ~hist.deleted

\* The tree below root in f, as a map from the path below root to what is
\* there (a directory, or a file's content)
Subtree(f, root) ==
    LET below == {q \in DOMAIN f : IsPrefix(root, q)}
        Rel(q) == SubSeq(q, Len(root) + 1, Len(q))
    IN  [r \in {Rel(q) : q \in below} |->
            LET e == f[root \o r] IN IF e.kind = "dir" THEN <<"dir">> ELSE <<"file", e.data>>]

\* C12: after a move of a file or of a directory returned Ok, by rename or by
\* copy-then-delete, nothing is left at the source path and the destination
\* holds exactly what the source held before the move
C12_MovedExactly ==
    (req.op \in {"move", "movedir"} /\ pc = "done" /\ result.kind = "Ok") =>
        /\ ~Exists(fs, req.source)
        /\ Subtree(fs, req.target) = Subtree(fs0, req.source)

\* C13: in every move, of a file and of a directory, whose destination exists,
\* the overwrite decision is resolved before any rename or copy is attempted,
\* and a decision other than Proceed prevents the rename
C13_DecisionBeforeRename ==
    (req.op \in {"move", "movedir"} /\ Exists(fs0, req.target)) =>
        /\ (hist.rename # "none" \/ hist.copied) => hist.decision = "Proceed"
        /\ hist.decision \notin {"none", "Proceed"} => hist.rename = "none" /\ fs = fs0

\* C14: in copy_directory and in parallel_copy_directory a transfer to a
\* destination path is started only when the directory the path lies in
\* already exists at the destination, at every depth and whichever worker
\* takes the step
C14_ParentBeforeTransfer ==
    [][req.op \in {"copydir", "pardir"} =>
          \A p \in hist'.started \ hist.started : ParentExists(fs, p)]_vars
\* two workers of parallel_copy_directory ran, the file below the
\* subdirectory was transferred, and the copy returned Ok
C14_Witness ==
    /\ req.op = "pardir" /\ pc = "done" /\ result.kind = "Ok"
    /\ Cardinality(DOMAIN workers) >= 2
    /\ T_DIR \o <<D_SUB, G_TXT>> \in hist.started
    /\ ~Exists(fs0, T_DIR)

\* C15: when copy_directory or parallel_copy_directory returns Ok, every
\* subdirectory of the source exists at the mirrored path under the
\* destination and every file of the source is there with identical content
C15_TreeMirrored ==
    (req.op \in {"copydir", "pardir"} /\ pc = "done" /\ result.kind = "Ok") =>
        \A r \in DOMAIN Subtree(fs0, req.source) :
            /\ r \in DOMAIN Subtree(fs, req.target)
            /\ Subtree(fs, req.target)[r] = Subtree(fs0, req.source)[r]

\* C16: in parallel_copy_directory, for every list of one or more files and
\* every worker count of one or more, the slices handed to the workers are
\* non-empty runs of consecutive indices, each starting where the previous
\* one ended, the first at 0 and the last ending at the end of the list; no
\* file is taken twice, and when the copy returns Ok every file was taken once
C16_SlicesPartition ==
    (req.op = "pardir" /\ DOMAIN workers # {}) =>
        LET len == Len(files_to_copy)
            last == Cardinality(DOMAIN workers) - 1
        IN  /\ DOMAIN workers = 0..last
            /\ workers[0].start = 0
            /\ workers[last].end = len
            /\ \A t \in DOMAIN workers :
                  /\ workers[t].start < workers[t].end
                  /\ t > 0 => workers[t].start = workers[t - 1].end
                  /\ workers[t].next \in workers[t].start..workers[t].end
            /\ \A i \in DOMAIN visited : visited[i] <= 1
            /\ (pc = "done" /\ result.kind = "Ok") =>
                  \A i \in 0..(len - 1) : visited[i] = 1
\* three files were cut into slices of two and one, and both workers copied
\* their slice to the end
C16_Witness ==
    /\ req.op = "pardir" /\ pc = "done" /\ result.kind = "Ok"
    /\ Len(files_to_copy) = 3 /\ DOMAIN workers = {0, 1}
    /\ workers[0].end - workers[0].start = 2
    /\ workers[1].next = 3

\* C17: a FileCopier.copy whose source and destination are the same file
\* loses no data: whatever the overwrite mode, when the call returns (and no
\* I/O failure struck) the file holds the content it held before the call
C17_SameFileKept ==
    (req.op = "copy" /\ req.source = req.target /\ Finished) =>
        /\ IsFile(fs, req.source)
        /\ fs[req.source].data = fs0[req.source].data

SidecarInvalid ==
    LET state_file == state_file_path(req.target)
    IN  /\ Exists(fs0, state_file)
        /\ \/ ~fs0[state_file].json.parse
           \/ ~validate(Deserialize(fs0[state_file].json))

\* C19: when resume is requested and the sidecar of the destination cannot be
\* parsed or fails validation, FileCopier.copy does not fail because of it:
\* the record is dropped as if it were absent and the copy goes on afresh
C19_InvalidSidecarDiscarded ==
    (req.op = "copy" /\ req.resume /\ SidecarInvalid) =>
        /\ result.kind # "InvalidResumeState"
        /\ (pc = "done" /\ result.kind = "Ok") => fs[req.target].data = SourceData

WithoutSidecar(f) == [q \in DOMAIN f \ {state_file_path(req.target)} |-> f[q]]

\* C21: a save of the resume record that fails during the loop neither aborts
\* nor alters the transfer: the step in which it fails leaves the copy where
\* the same step with a successful save leaves it (same position, same
\* record in memory, same result so far, same files but for the sidecar)
C21_SaveFailureHarmless ==
    [][(req.op = "copy" /\ hist'.save_failed /\ ~hist.save_failed) =>
          LET buffer == ReadAt(fs, req.source, src_pos)
              state == mark_chunk_done(resume_state.rec, current_offset, Len(buffer))
              saved == Save(WriteAt(fs, write_target, dst_pos, buffer), state)
          IN  /\ pc' = "loop" /\ result' = result
              /\ WithoutSidecar(fs') = WithoutSidecar(saved)
              /\ src_pos' = src_pos + Len(buffer)
              /\ dst_pos' = dst_pos + Len(buffer)
              /\ current_offset' = current_offset + Len(buffer)
              /\ resume_state' = SomeState(state)]_vars
\* a copy in which the save failed and which went on to return Ok with the
\* target holding the source's bytes
C21_Witness ==
    /\ req.op = "copy" /\ hist.save_failed
    /\ pc = "done" /\ result.kind = "Ok" /\ ~result.fault
    /\ fs[req.target].data = SourceData /\ Len(SourceData) > 0

\* C22: when the resume offer is declined, then before any byte is copied the
\* record has been discarded (the sidecar the call found is no longer there
\* for a later load), the partial artifact at the write target is gone, and
\* the copy starts from offset 0
C22_DeclineDiscardsRecord ==
    (req.op = "copy" /\ hist.offer = "restart" /\ pc = "loop" /\ current_offset = 0) =>
        LET state_file == state_file_path(req.target)
        IN  /\ ~(Exists(fs, state_file) /\ fs[state_file] = fs0[state_file])
            /\ fs[write_target].data = <<>>
            /\ src_pos = 0 /\ dst_pos = 0

\* C23: when the overwrite decision for an existing destination is Skip or
\* Abort, FileCopier.copy ends there with nothing on the filesystem changed
\* (destination, parent directories, staging file, sidecar); Abort is
\* returned as UserAborted and Skip as something else
C23_SkipAbortTouchNothing ==
    (req.op = "copy" /\ hist.decision \in {"Skip", "Abort"}) =>
        /\ pc = "done"
        /\ fs = fs0
        /\ hist.decision = "Abort" => result.kind = "UserAborted"
        /\ hist.decision = "Skip" => result.kind \notin {"UserAborted", "Ok", "None"}
\* the prompt was answered abort in atomic mode, for an existing target with
\* a sidecar beside it
C23_Witness ==
    /\ req.op = "copy" /\ hist.decision = "Abort" /\ req.atomic
    /\ pc = "done" /\ result.kind = "UserAborted"
    /\ Exists(fs0, req.target) /\ Exists(fs0, state_file_path(req.target))
    /\ fs = fs0

\* C24: ParallelFileCopier.copy returns Ok only if every worker it spawned
\* went through all its chunks without error; once the copy has returned, a
\* failed worker among those it awaited means the result is an error
C24_OkOnlyIfAllWorkersOk ==
    (req.op = "pcopy" /\ pc = "done") =>
        /\ result.kind = "Ok" =>
              \A t \in DOMAIN workers :
                  /\ workers[t].state = "ok"
                  /\ StepByDone(workers[t].chunk_idx, NumChunks(total_size))
        /\ (\E t \in DOMAIN workers : workers[t].state = "Io") => result.kind # "Ok"
\* two workers were spawned, the first one failed on its chunk without any
\* failure of the filesystem, and the copy returned an error
C24_Witness ==
    /\ req.op = "pcopy" /\ pc = "done"
    /\ Cardinality(DOMAIN workers) >= 2
    /\ workers[0].state = "Io" /\ ~workers[0].fault
    /\ result.kind = "Custom"

\* C25: whenever verification is requested, ParallelFileCopier.copy returns Ok
\* only after the whole-file checksum comparison ran and matched, for sizes
\* at or above the chunk size and below it alike
C25_OkOnlyAfterVerify ==
    (req.op = "pcopy" /\ req.verify /\ pc = "done" /\ result.kind = "Ok") => hist.verified

\* C26: the error an engine returns has the kind raised at the point of
\* failure: a permission failure of the stat of the source is returned as
\* PermissionDenied, and when a parallel copy of a file or of a tree returns
\* because the worker it awaited failed, the result has that worker's kind
C26_ErrorKindPreserved ==
    pc = "done" =>
        /\ (req.op \in {"copy", "pcopy"} /\ hist.stat_error = "PermissionDenied")
              => result.kind = "PermissionDenied"
        /\ (req.op \in {"pcopy", "pardir"} /\ joined \in DOMAIN workers
            /\ workers[joined].state \notin {"ok", "running"})
              => result.kind = workers[joined].state

\* C27: every record the sequential engine holds or has persisted while
\* perform_copy runs passes validate: the record in memory from the opening
\* of the files on, and the sidecar whenever it holds that record
C27_SavedRecordValid ==
    (req.op = "copy" /\ pc \in {"loop", "rename", "verify", "cleanup"} /\ resume_state.some) =>
        /\ validate(resume_state.rec)
        /\ LET sc == state_file_path(req.target)
           IN  (Exists(fs, sc) /\ fs[sc].json.parse /\ fs[sc].json.rec = resume_state.rec)
                  => validate(fs[sc].json.rec)

\* The target starts as an interrupted copy leaves it: absent, or a prefix of
\* the source with, beside it, no record or a valid one that claims no more
\* than the target holds
PartialAtStart ==
    LET sc == state_file_path(req.target)
    IN  /\ IsFile(fs0, req.source)
        /\ Exists(fs0, req.target) =>
              /\ IsFile(fs0, req.target)
              /\ Len(fs0[req.target].data) <= Len(fs0[req.source].data)
              /\ fs0[req.target].data =
                    SubSeq(fs0[req.source].data, 1, Len(fs0[req.target].data))
              /\ Exists(fs0, sc) =>
                    /\ fs0[sc].json.parse
                    /\ validate(fs0[sc].json.rec)
                    /\ bytes_completed(fs0[sc].json.rec) <= Len(fs0[req.target].data)
        /\ ~Exists(fs0, req.target) => ~Exists(fs0, sc)

\* C28: a record the copy loop has persisted never claims more than the write
\* target holds, and the first bytes_completed bytes of the write target are
\* the first bytes_completed bytes of the source (for a copy that found the
\* target as an interrupted copy leaves it)
C28_RecordWithinWritten ==
    LET sc == state_file_path(req.target)
    IN  (/\ req.op = "copy" /\ pc = "loop" /\ PartialAtStart
         /\ Exists(fs, sc) /\ fs[sc].json.parse
         /\ resume_state.some /\ fs[sc].json.rec = resume_state.rec
         /\ (~Exists(fs0, sc) \/ fs0[sc].json # fs[sc].json)) =>
            LET b == bytes_completed(fs[sc].json.rec)
            IN  /\ b <= Len(fs[write_target].data)
                /\ b <= Len(fs[req.source].data)
                /\ SubSeq(fs[write_target].data, 1, b) = SubSeq(fs[req.source].data, 1, b)

\* C29: when a record with bytes_completed = b is honoured, the destination is
\* written from offset b on, whatever lay beyond b being cut off, so that at
\* every step of the loop the destination offset equals the source offset
C29_ResumeOffsetsAligned ==
    (req.op = "copy" /\ pc = "loop" /\ hist.offer = "continue" /\ PartialAtStart) =>
        /\ dst_pos = src_pos
        /\ Len(fs[write_target].data) = dst_pos

\* C30: in a parallel copy the byte ranges two distinct workers address their
\* writes to are disjoint, and the write for chunk k lies within
\* [k * CHUNK_SIZE, min((k + 1) * CHUNK_SIZE, total_size))
C30_WorkerRangesDisjoint ==
    req.op = "assign" =>
        /\ \A w \in hist.writes :
              /\ w.offset >= w.chunk_idx * CHUNK_SIZE
              /\ w.offset + w.length <= Min((w.chunk_idx + 1) * CHUNK_SIZE, total_size)
        /\ \A w1, w2 \in hist.writes :
              w1.thread_id # w2.thread_id =>
                  \/ w1.offset + w1.length <= w2.offset
                  \/ w2.offset + w2.length <= w1.offset
\* two workers went through all their chunks, one of them took two chunks,
\* and the last chunk of the file was a short one
C30_Witness ==
    /\ req.op = "assign" /\ pc = "done"
    /\ \E w1, w2, w3 \in hist.writes :
          /\ w1.thread_id # w2.thread_id
          /\ w3.thread_id = w1.thread_id /\ w3.chunk_idx # w1.chunk_idx
          /\ w1.length > 0 /\ w2.length > 0 /\ w3.length > 0
    /\ \E w \in hist.writes : w.length < CHUNK_SIZE /\ w.length > 0

\* C31: the counter of the shared ProgressTracker is the sum of the
\* increments the copy made, and after a parallel copy that returned Ok it
\* equals the size of the file
C31_TrackerCountsAll ==
    req.op = "pcopy" =>
        /\ transferred <= total_size
        /\ (pc = "done" /\ result.kind = "Ok") => transferred = total_size

(***************************************************************************)
(* The sidecar ledger: save, load and cleanup for the destinations of one  *)
(* directory                                                               *)
(***************************************************************************)
B_STATE == << <<"b", "better-cp", "state">> >>
B_INVALID == << <<InvalidUtf8>> >>
B_REPLACED == << <<Replaced>> >>
SidecarDests == {B_BARE, B_STATE, B_INVALID, B_REPLACED}
SidecarRecords(target) ==
    {[NewResumeState(A_TXT, target, size) EXCEPT !.chunks_completed = cl] :
        size \in {CHUNK_SIZE + 1}, cl \in {<<>>, <<ChunkInfo(0, CHUNK_SIZE)>>}}

InitSidecar ==
    /\ req = [op |-> "sidecar", source |-> A_TXT, target |-> B_BARE,
              overwrite_mode |-> "Always", verify |-> FALSE, resume |-> TRUE,
              atomic |-> FALSE, parallel_threads |-> 0]
    /\ fs = EmptyFs
    /\ fs0 = fs
    /\ pc = "start"
    /\ result = NoResult
    /\ total_size = 0
    /\ src_modified = 0
    /\ resume_state = NoState
    /\ write_target = <<>>
    /\ src_pos = 0
    /\ dst_pos = 0
    /\ current_offset = 0
    /\ workers = <<>>
    /\ joined = 0
    /\ transferred = 0
    /\ visited = <<>>
    /\ files_to_copy = <<>>
    /\ frames = <<>>
    /\ hist = [NoHist EXCEPT !.ledger = [t \in SidecarDests |-> NoState]]

\* serde's Serialize for PathBuf (resume.rs:53): a path that is not UTF-8 makes
\* to_string_pretty fail
SerializeOk(r) == IsUtf8(r.source) /\ IsUtf8(r.target)

\* resume.rs:51-58: ResumeState::save of a record for one of the destinations
SidecarSave ==
    /\ req.op = "sidecar"
    /\ \E target \in SidecarDests, ok \in BOOLEAN :
         \E r \in SidecarRecords(target) :
           /\ req' = [req EXCEPT !.target = target]
           /\ resume_state' = SomeState(r)
           /\ pc' = "saved"
           /\ IF ~SerializeOk(r)
              THEN /\ result' = Custom("Failed to serialize state")
                   /\ UNCHANGED <<fs, hist>>
              ELSE IF ~ok
              THEN /\ result' = IoResult(Err("Io"), FALSE)
                   /\ UNCHANGED <<fs, hist>>
              ELSE /\ result' = Ok
                   /\ fs' = Save(fs, r)
                   /\ hist' = [hist EXCEPT !.ledger[target] = SomeState(r)]
    /\ UNCHANGED <<fs0, total_size, src_modified, write_target, src_pos, dst_pos,
                   current_offset, rest, transferred>>

\* resume.rs:61-72: ResumeState::load for one of the destinations
SidecarLoad ==
    /\ req.op = "sidecar"
    /\ \E target \in SidecarDests, readOk \in BOOLEAN :
         LET out == LoadOutcome(fs, target, readOk)
         IN  /\ req' = [req EXCEPT !.target = target]
             /\ pc' = "loaded"
             /\ hist' = [hist EXCEPT !.load = out]
             /\ resume_state' =
                  IF out = "loaded"
                  THEN SomeState(Deserialize(fs[state_file_path(target)].json))
                  ELSE NoState
             /\ result' = CASE out = "io" -> IoResult(Err("Io"), FALSE)
                            [] out = "invalid" -> Err("InvalidResumeState")
                            [] OTHER -> Ok
    /\ UNCHANGED <<fs, fs0, total_size, src_modified, write_target, src_pos, dst_pos,
                   current_offset, rest, transferred>>

\* resume.rs:75-81: ResumeState::cleanup of a record of one of the destinations
SidecarCleanup ==
    /\ req.op = "sidecar"
    /\ \E target \in SidecarDests, ok \in BOOLEAN :
         \E r \in SidecarRecords(target) :
           /\ req' = [req EXCEPT !.target = target]
           /\ resume_state' = SomeState(r)
           /\ pc' = "cleaned"
           /\ IF ok \/ ~Exists(fs, state_file_path(r.target))
              THEN /\ result' = Ok
                   /\ fs' = cleanup(fs, r)
                   /\ hist' = [hist EXCEPT !.ledger[target] = NoState]
              ELSE /\ result' = IoResult(Err("Io"), FALSE)
                   /\ UNCHANGED <<fs, hist>>
    /\ UNCHANGED <<fs0, total_size, src_modified, write_target, src_pos, dst_pos,
                   current_offset, rest, transferred>>

NextSidecar ==
    \/ SidecarSave
    \/ SidecarLoad
    \/ SidecarCleanup

SpecSidecar == InitSidecar /\ [][NextSidecar]_vars

\* C32: the record of a destination is found by the destination path alone:
\* a load after a save returns the saved source, target, size and ranges, a
\* load after a cleanup returns None, and neither is changed by a save or a
\* cleanup for another destination of the same directory
C32_LedgerRoundTrip ==
    req.op = "sidecar" =>
        /\ \A t \in SidecarDests :
              IF hist.ledger[t].some
              THEN /\ LoadOutcome(fs, t, TRUE) = "loaded"
                   /\ Deserialize(fs[state_file_path(t)].json) = hist.ledger[t].rec
              ELSE LoadOutcome(fs, t, TRUE) = "absent"
        /\ (pc = "loaded" /\ ~result.fault) =>
              /\ result.kind = "Ok"
              /\ resume_state = hist.ledger[req.target]

\* C33: with the resume flag false the copy never reads the sidecar of the
\* destination and never creates or writes one: where none existed at the
\* start none exists at any point of the transfer, and so none is left behind
\* by a kill at that point
C33_NoSidecarWithoutResume ==
    LET sc == state_file_path(req.target)
    IN  (req.op = "copy" /\ ~req.resume) =>
            /\ hist.load = "none"
            /\ ~Exists(fs0, sc) => ~Exists(fs, sc)

(***************************************************************************)
(* A copy that finds a record written for another request                 *)
(***************************************************************************)
\* The records a run can find beside its target that another run wrote for it:
\* for the same source at the same size, for another source, or when the
\* source had another size
ForeignRecords(source, target, size) ==
    {[NewResumeState(s, target, n) EXCEPT !.chunks_completed = <<ChunkInfo(0, CHUNK_SIZE)>>] :
        s \in {source, A_TMP}, n \in {size, size + 1}}

InitForeign ==
    /\ \E mode \in OverwriteModes, verify \in BOOLEAN, resume \in BOOLEAN, atomic \in BOOLEAN,
          size \in {CHUNK_SIZE + 1, Several * CHUNK_SIZE} :
         \E dst \in DstStates \cup {PartialDst(size)}, r \in ForeignRecords(A_TXT, B_TXT, size) :
           /\ req = [op |-> "copy", source |-> A_TXT, target |-> B_TXT,
                     overwrite_mode |-> mode, verify |-> verify, resume |-> resume,
                     atomic |-> atomic, parallel_threads |-> 0]
           /\ fs = InitFs(A_TXT, B_TXT, size, dst, [kind |-> "record", entry |-> JsonEntry(r, 1)])
    /\ fs0 = fs
    /\ InitLocals
SpecForeign == InitForeign /\ [][NextCopy]_vars

\* C34: a loaded record is used to skip bytes only if it was written for this
\* request: once the loop runs from a record whose resume offer was accepted,
\* the record found at the start names the current source and its size
C34_RecordBelongsToRequest ==
    LET sc == state_file_path(req.target)
    IN  (req.op = "copy" /\ pc = "loop" /\ hist.load = "loaded" /\ hist.offer = "continue") =>
            /\ fs0[sc].json.rec.source = req.source
            /\ fs0[sc].json.rec.total_size = total_size

\* C35: whenever the copy goes on from a loaded record (it is about to open
\* the destination without truncation, the overwrite decision skipped), the
\* resume offer was answered 'continue' earlier in the same call
C35_ContinueOnlyAfterOffer ==
    (req.op = "copy" /\ pc = "open" /\ resume_state.some) => hist.offer = "continue"

\* The destinations of the requests, all in one directory
Destinations == {pp[2] : pp \in PathPairs}
\* C36: in atomic mode the staging path the copy writes to differs from the
\* destination path, and no other destination of the same directory has the
\* same staging path
C36_StagingPathDistinct ==
    (req.op = "copy" /\ req.atomic /\ pc = "loop") =>
        /\ write_target # req.target
        /\ \A t \in Destinations :
              (t # req.target /\ Parent(t) = Parent(req.target))
                  => WriteTarget(t, TRUE) # write_target

\* C37: once ParallelFileCopier.copy has returned an error, no worker issues
\* a further write to the destination, and no worker is still in its chunk
\* loop: the remaining workers were stopped before copy returned
C37_WorkersStoppedOnError ==
    [][(req.op = "pcopy" /\ pc = "done" /\ result.kind # "Ok")
          => (hist'.writes = hist.writes /\ workers' = workers)]_vars

\* C38: for every degree of parallelism, 0 included, a parallel copy of a
\* file of at least one chunk returns Ok only if a worker copied every chunk
\* index below num_chunks: the destination then holds the source's bytes, not
\* the holes of the pre-allocation
C38_OkOnlyIfAllChunksCopied ==
    (req.op = "pcopy" /\ pc = "done" /\ result.kind = "Ok" /\ total_size >= CHUNK_SIZE) =>
        /\ \A k \in 0..(NumChunks(total_size) - 1) : \E w \in hist.writes : w.chunk_idx = k
        /\ fs[req.target].data = fs[req.source].data

\* The record r with its ranges appended in the order p, a permutation of
\* their positions
Reordered(r, p) ==
    [r EXCEPT !.chunks_completed = [i \in DOMAIN r.chunks_completed |-> r.chunks_completed[p[i]]]]
\* C39: the verdict of validate depends only on which ranges the record holds,
\* not on the order they were appended in: the verdict returned for the record
\* is the verdict of every reordering of its ranges, zero-length ranges and
\* ranges with equal offsets included
C39_ValidateOrderBlind ==
    (req.op = "ledger" /\ pc = "done") =>
        \A p \in Permutations(DOMAIN resume_state.rec.chunks_completed) :
            (result.kind = "Ok") = validate(Reordered(resume_state.rec, p))

====
